---- MODULE Spec2Model ----
(***************************************************************************)
(* Model of the keyed-scan engine of swh-provenance:                       *)
(*   - Table / FileReader (database/table.rs, database/reader.rs): the     *)
(*     file-level Elias-Fano index and the pruning pipeline of             *)
(*     Table::filtered_record_batch_stream_builder;                        *)
(*   - IndexKey (database/types.rs): the row-group and page statistics     *)
(*     checks for u64 and Sha1Git keys;                                    *)
(*   - the row filters of queries.rs;                                      *)
(*   - ParquetFileReaderPool (database/pooled_reader.rs).                  *)
(***************************************************************************)
EXTENDS Integers, Sequences, FiniteSets, TLC

(***************************************************************************)
(* Bounds of the model.                                                    *)
(***************************************************************************)
\* Key values are 0..MaxKey (node ids, or 20-byte hashes in their byte order).
MaxKey == 2
\* Rows of the table.
MaxRows == 3

KeyDomain == 0..MaxKey

(***************************************************************************)
(* Sequence helpers.                                                       *)
(***************************************************************************)
Range(s) == {s[i] : i \in DOMAIN s}

RECURSIVE Concat(_)
Concat(ss) == IF ss = <<>> THEN <<>> ELSE Head(ss) \o Concat(Tail(ss))

RECURSIVE SumSeq(_)
SumSeq(s) == IF s = <<>> THEN 0 ELSE Head(s) + SumSeq(Tail(s))

\* Iterator::min / Iterator::max of a non-empty sequence
SeqMin(s) == CHOOSE v \in Range(s) : \A w \in Range(s) : v <= w
SeqMax(s) == CHOOSE v \in Range(s) : \A w \in Range(s) : v >= w

IsNonDecreasing(s) == \A i \in 1..(Len(s) - 1) : s[i] <= s[i + 1]
IsSortedDedup(s) == \A i \in 1..(Len(s) - 1) : s[i] < s[i + 1]

\* The elements of a finite set of integers, ascending
RECURSIVE SortedSeqOf(_)
SortedSeqOf(S) ==
    IF S = {} THEN <<>>
    ELSE LET m == CHOOSE v \in S : \A w \in S : v <= w
         IN <<m>> \o SortedSeqOf(S \ {m})
\* The sorted, deduplicated key vectors a scan is called with
KeySets == {SortedSeqOf(S) : S \in SUBSET KeyDomain}

(***************************************************************************)
(* The table on disk.  A file is a sequence of row groups; a row group is  *)
(* a sequence of data pages, with optional min/max statistics and an       *)
(* optional Bloom filter on the key column; a page is the sequence of the  *)
(* key-column values of its rows.  The builder sorts a table by its key    *)
(* column and cuts the sorted run into files, row groups and pages, with   *)
(* the same writer settings for the whole table.                           *)
(***************************************************************************)
SortedRuns == {r \in UNION {[1..n -> KeyDomain] : n \in 1..MaxRows} : IsNonDecreasing(r)}
\* What lies between row i and row i + 1 of the run
Cuts == {"row", "page", "group", "file"}
BloomKinds == {"none", "exact", "saturated"}

\* The segments <<first, last>> of lo..hi that start at the members of starts
Segments(starts, lo, hi) ==
    LET st == SortedSeqOf({x \in starts \cup {lo} : lo <= x /\ x <= hi})
    IN [i \in DOMAIN st |-> <<st[i], IF i < Len(st) THEN st[i + 1] - 1 ELSE hi>>]

MakeFiles(run, cuts, stats, bloom, page_index, ef) ==
    LET n == Len(run)
        file_starts == {i + 1 : i \in {j \in DOMAIN cuts : cuts[j] = "file"}}
        group_starts == file_starts \cup {i + 1 : i \in {j \in DOMAIN cuts : cuts[j] = "group"}}
        page_starts == group_starts \cup {i + 1 : i \in {j \in DOMAIN cuts : cuts[j] = "page"}}
        fsegs == Segments(file_starts, 1, n)
        MakeGroup(seg) ==
            LET psegs == Segments(page_starts, seg[1], seg[2])
            IN [pages |-> [p \in DOMAIN psegs |-> SubSeq(run, psegs[p][1], psegs[p][2])],
                stats |-> stats, bloom |-> bloom]
        MakeFile(f) ==
            LET gsegs == Segments(group_starts, fsegs[f][1], fsegs[f][2])
            IN [groups |-> [g \in DOMAIN gsegs |-> MakeGroup(gsegs[g])],
                page_index |-> page_index,
                ef_on_disk |-> f \in ef]
    IN [f \in DOMAIN fsegs |-> MakeFile(f)]

NumFilesOf(cuts) == 1 + Cardinality({j \in DOMAIN cuts : cuts[j] = "file"})

GroupRows(rg) == Concat(rg.pages)
NumRows(rg) == Len(GroupRows(rg))
FileRows(file) == Concat([i \in DOMAIN file.groups |-> GroupRows(file.groups[i])])

\* The key column of a table and the column its Elias-Fano indexes are on:
\* c_in_r, c_in_d and d_in_r are keyed and indexed on a u64 column, the node
\* table is scanned on sha1_git and indexed on id.
KeyTypes == {"u64", "sha1_git"}
KeyColumn(key_type) == IF key_type = "u64" THEN "cnt" ELSE "sha1_git"
IndexedColumn(key_type) == IF key_type = "u64" THEN "cnt" ELSE "id"

\* The content of the index file <file>.index=<column>.ef: the distinct
\* values of the column (node ids are the row ordinals of the node table).
EfFileContent(file, column_name) ==
    IF column_name = "id" THEN 1..Len(FileRows(file)) ELSE Range(FileRows(file))

Some(v) == [some |-> TRUE, v |-> v]
None(v) == [some |-> FALSE, v |-> v]

(***************************************************************************)
(* FileReader: the file-level Elias-Fano index (database/reader.rs).       *)
(* The OnceLock<EfIndex> is [set, column_name, kind, values], kind being   *)
(* the variant of EfIndexValues: "Mapped" or "Loaded".                     *)
(***************************************************************************)
UnsetIndex == [set |-> FALSE, column_name |-> "", kind |-> "", values |-> {}]

\* FileReader::ef_index
ef_index(index, column_name) ==
    IF ~index.set THEN None({})
    ELSE IF index.column_name = column_name THEN Some(index.values)
    ELSE None({})

\* A mmap_ef_index that replaces the index that is there.
mmap_ef_index_replacing(index, file, column_name) ==
    [set |-> TRUE, column_name |-> column_name, kind |-> "Mapped",
     values |-> EfFileContent(file, column_name)]

\* FileReader::mmap_ef_index on a file whose index file exists: OnceLock::set
\* keeps an index that is already there.
mmap_ef_index(index, file, column_name) ==
    IF index.set THEN index
    ELSE [set |-> TRUE, column_name |-> column_name, kind |-> "Mapped",
          values |-> EfFileContent(file, column_name)]

\* The end of FileReader::build_ef_index: OnceLock::set of the index built,
\* which keeps an index that is already there.
set_loaded_ef_index(index, file, column_name) ==
    IF index.set THEN index
    ELSE [set |-> TRUE, column_name |-> column_name, kind |-> "Loaded",
          values |-> EfFileContent(file, column_name)]

\* IndexKey::as_ef_key: a u64 key is its own Elias-Fano key, a Sha1Git has none.
as_ef_key(key_type, key) == IF key_type = "u64" THEN Some(key) ELSE None(0)

\* Table::mmap_ef_index: the files are mapped in order and the first failure
\* (an index file that is absent) ends the loop with an error.
FirstMissing(fs) ==
    LET missing == {f \in DOMAIN fs : ~fs[f].ef_on_disk}
    IN IF missing = {} THEN Len(fs) + 1
       ELSE CHOOSE f \in missing : \A g \in missing : f <= g

(***************************************************************************)
(* IndexKey: the statistics checks (database/types.rs).                    *)
(***************************************************************************)
\* StatisticsConverter::row_group_mins / row_group_maxes: one slot per row
\* group, null when the row group has no statistics; 'slot' is the value the
\* array holds under a null, which BooleanArray::from_unary reads like any other.
row_group_min(rg, slot) == IF rg.stats THEN SeqMin(GroupRows(rg)) ELSE slot
row_group_max(rg, slot) == IF rg.stats THEN SeqMax(GroupRows(rg)) ELSE slot

\* The row-group check with the strict comparisons of the page check.
check_column_chunk_strict(keys, rg, slot) ==
    /\ row_group_min(rg, slot) < SeqMax(keys)
    /\ row_group_max(rg, slot) > SeqMin(keys)

\* <u64 as IndexKey>::check_column_chunk, for one row group
check_column_chunk_u64(keys, rg, slot) ==
    /\ row_group_min(rg, slot) <= SeqMax(keys)
    /\ row_group_max(rg, slot) >= SeqMin(keys)

\* IndexKey::check_column_chunk: None for Sha1Git ("cannot prune")
check_column_chunk(key_type, keys, groups, slot) ==
    IF key_type = "sha1_git" THEN None(<<>>)
    ELSE Some([i \in DOMAIN groups |-> check_column_chunk_u64(keys, groups[i], slot)])

\* <u64 as IndexKey>::check_page_index, for one data page
check_page_index_u64(keys, page) ==
    /\ SeqMin(page) < SeqMax(keys)
    /\ SeqMax(page) > SeqMin(keys)

\* <Sha1Git as IndexKey>::check_page_index, for one data page
check_page_index_sha1(keys, page) ==
    /\ SeqMin(page) <= SeqMax(keys)
    /\ SeqMax(page) >= SeqMin(keys)

check_page_index(key_type, keys, page) ==
    IF key_type = "u64" THEN check_page_index_u64(keys, page)
    ELSE check_page_index_sha1(keys, page)

\* Sbbf::check on the Bloom filter of a row group: never a false negative
bloom_check(rg, key) == rg.bloom = "saturated" \/ key \in Range(GroupRows(rg))

(***************************************************************************)
(* The row filters of queries.rs.                                          *)
(***************************************************************************)
\* slice::binary_search(..).is_ok() on keys[lo+1..hi]
RECURSIVE binary_search(_, _, _, _)
binary_search(keys, key, lo, hi) ==
    IF lo >= hi THEN FALSE
    ELSE LET mid == lo + ((hi - lo) \div 2)
         IN IF keys[mid + 1] = key THEN TRUE
            ELSE IF keys[mid + 1] < key THEN binary_search(keys, key, mid + 1, hi)
            ELSE binary_search(keys, key, lo, mid)

\* A search that leaves the last key out.
evaluate_short(keys, key) == binary_search(keys, key, 0, Len(keys) - 1)

\* query_x_in_y_table::Predicate::evaluate, for one row
evaluate(keys, key) == binary_search(keys, key, 0, Len(keys))

\* the ArrowPredicateFn of node_ids_from_swhids::Configurator::configure
\* ('type' is not checked), for one row
node_row_filter(sha1_gits, sha1_git) == binary_search(sha1_gits, sha1_git, 0, Len(sha1_gits))

row_filter(key_type, keys, key) ==
    IF key_type = "u64" THEN evaluate(keys, key) ELSE node_row_filter(keys, key)

(***************************************************************************)
(* Table::filtered_record_batch_stream_builder (database/table.rs), for    *)
(* one file.  Row positions are 0-based as in the source.                  *)
(***************************************************************************)
\* Stage 1 handing a selected file the caller's keys instead of keys_in_file.
ef_stage_all_keys(index, column, key_type, keys) ==
    LET idx == ef_index(index, column)
        InIndex(key) == LET k == as_ef_key(key_type, key)
                        IN IF k.some THEN k.v \in idx.v ELSE TRUE
        keys_in_file == SelectSeq(keys, InIndex)
    IN IF ~idx.some
       THEN [keys |-> keys, reader |-> TRUE, warned |-> TRUE,
             files_pruned_by_ef_index |-> 0, files_selected_by_ef_index |-> 0]
       ELSE IF keys_in_file = <<>>
       THEN [keys |-> <<>>, reader |-> FALSE, warned |-> FALSE,
             files_pruned_by_ef_index |-> 1, files_selected_by_ef_index |-> 0]
       ELSE [keys |-> keys, reader |-> TRUE, warned |-> FALSE,
             files_pruned_by_ef_index |-> 0, files_selected_by_ef_index |-> 1]

\* Stage 1: filter out the whole file with the file-level Elias-Fano index.
\* Returns the (keys, reader, metrics) of the first JoinSet.
ef_stage(index, column, key_type, keys) ==
    LET idx == ef_index(index, column)
        InIndex(key) == LET k == as_ef_key(key_type, key)
                        IN IF k.some THEN k.v \in idx.v ELSE TRUE
        keys_in_file == SelectSeq(keys, InIndex)
    IN IF ~idx.some
       THEN [keys |-> keys, reader |-> TRUE, warned |-> TRUE,
             files_pruned_by_ef_index |-> 0, files_selected_by_ef_index |-> 0]
       ELSE IF keys_in_file = <<>>
       THEN [keys |-> <<>>, reader |-> FALSE, warned |-> FALSE,
             files_pruned_by_ef_index |-> 1, files_selected_by_ef_index |-> 0]
       ELSE [keys |-> keys_in_file, reader |-> TRUE, warned |-> FALSE,
             files_pruned_by_ef_index |-> 0, files_selected_by_ef_index |-> 1]

\* Stages 3 and 4: the row groups kept by the statistics and, nested in the
\* branch where the statistics could be checked, by the Bloom filters.
bloom_filter_consulted(key_type, keys, groups, slot) ==
    LET m == check_column_chunk(key_type, keys, groups, slot)
    IN IF m.some THEN {i \in DOMAIN groups : m.v[i] /\ groups[i].bloom # "none"}
       ELSE {}

selected_row_groups(key_type, keys, groups, slot) ==
    LET m == check_column_chunk(key_type, keys, groups, slot)
    IN IF m.some
       THEN SortedSeqOf({i \in DOMAIN groups :
                /\ m.v[i]
                /\ \/ groups[i].bloom = "none"
                   \/ \E j \in DOMAIN keys : bloom_check(groups[i], keys[j])})
       ELSE [i \in DOMAIN groups |-> i]

\* page_location.first_row_index of page p of a row group
first_row_index(rg, p) == SumSeq([q \in 1..(p - 1) |-> Len(rg.pages[q])])

\* The loop of stage 5 with current_row_group_first_row_idx left at 0: every
\* range is relative to its own row group.
RECURSIVE page_ranges_unshifted(_, _, _)
page_ranges_unshifted(groups, selected, base) ==
    IF selected = <<>> THEN <<>>
    ELSE LET rg == groups[Head(selected)]
             n == Len(rg.pages)
         IN [p \in 1..n |->
                [row_group |-> Head(selected), page |-> p,
                 start |-> base + first_row_index(rg, p),
                 end |-> IF p < n THEN base + first_row_index(rg, p + 1)
                         ELSE base + NumRows(rg)]]
            \o page_ranges_unshifted(groups, Tail(selected), base)

\* The data pages of the selected row groups, in the order of
\* check_page_index's result, each with the row range the loop of stage 5
\* pushes for it: 'base' is current_row_group_first_row_idx.
RECURSIVE page_ranges(_, _, _)
page_ranges(groups, selected, base) ==
    IF selected = <<>> THEN <<>>
    ELSE LET rg == groups[Head(selected)]
             n == Len(rg.pages)
             next_row_group_first_row_idx == base + NumRows(rg)
         IN [p \in 1..n |->
                [row_group |-> Head(selected), page |-> p,
                 start |-> base + first_row_index(rg, p),
                 end |-> IF p < n THEN base + first_row_index(rg, p + 1)
                         ELSE next_row_group_first_row_idx]]
            \o page_ranges(groups, Tail(selected), next_row_group_first_row_idx)

\* Stage 5: Some(selected pages) when the file has a column index
selected_pages(file, key_type, keys, selected) ==
    IF ~file.page_index THEN None(<<>>)
    ELSE LET prs == page_ranges(file.groups, selected, 0)
         IN Some([i \in DOMAIN prs |->
                check_page_index(key_type, keys,
                                 file.groups[prs[i].row_group].pages[prs[i].page])])

num_rows_in_selected_row_groups(file, selected) ==
    SumSeq([i \in DOMAIN selected |-> NumRows(file.groups[selected[i]])])

\* The ranges handed to RowSelection::from_consecutive_ranges
selected_ranges(file, key_type, keys, selected) ==
    LET sp == selected_pages(file, key_type, keys, selected)
        prs == page_ranges(file.groups, selected, 0)
        total == num_rows_in_selected_row_groups(file, selected)
    IN IF ~sp.some THEN <<<<0, total>>>>
       ELSE LET idx == SortedSeqOf({i \in DOMAIN prs : sp.v[i]})
            IN [i \in DOMAIN idx |-> <<prs[idx[i]].start, prs[idx[i]].end>>]

\* The rows of the selected row groups in decoding order, as <<row group, row>>
row_ids(file, selected) ==
    Concat([i \in DOMAIN selected |->
              [j \in 1..NumRows(file.groups[selected[i]]) |-> <<selected[i], j>>]])

RowKey(file, id) == GroupRows(file.groups[id[1]])[id[2]]

\* Stage 6: the decoder reads the selected ranges and emits the rows the
\* builder configurator's row filter accepts.
emitted_rows(file, key_type, all_keys, selected, ranges) ==
    LET ids == row_ids(file, selected)
        pos == SortedSeqOf({i \in DOMAIN ids :
                  /\ \E r \in DOMAIN ranges : ranges[r][1] <= i - 1 /\ i - 1 < ranges[r][2]
                  /\ row_filter(key_type, all_keys, RowKey(file, ids[i]))})
    IN [i \in DOMAIN pos |-> ids[pos[i]]]

RangeRows(ranges) == SumSeq([r \in DOMAIN ranges |-> ranges[r][2] - ranges[r][1]])

\* RowSelection::from_consecutive_ranges(ranges, total_rows): a skip for the
\* gap before each range, a select for the range, a skip up to total_rows
\* after the last one; it panics on a range that starts before the end of
\* the one before it.  row_count() and skipped_row_count() add the selects
\* and the skips.
from_consecutive_ranges(ranges, total_rows) ==
    LET last_end(r) == IF r = 1 THEN 0 ELSE ranges[r - 1][2]
        out_of_order == \E r \in DOMAIN ranges : ranges[r][1] < last_end(r)
        end == last_end(Len(ranges) + 1)
    IN IF out_of_order
       THEN [panic |-> TRUE, row_count |-> 0, skipped_row_count |-> 0]
       ELSE [panic |-> FALSE,
             row_count |-> RangeRows(ranges),
             skipped_row_count |->
                 SumSeq([r \in DOMAIN ranges |-> ranges[r][1] - last_end(r)])
                 + (IF end # total_rows THEN total_rows - end ELSE 0)]

\* A second stage that never takes the shortcut.
shortcut_never(keys) == FALSE
\* `if keys.is_empty()`: shortcut, return nothing
shortcut(keys) == keys = <<>>

\* The checks of database/types.rs return an error on an empty set of keys:
\* check_column_chunk of u64, and check_page_index of both key types, which
\* is called when the file has a column index.
empty_keys_error(file, key_type, keys) ==
    keys = <<>> /\ (key_type = "u64" \/ file.page_index)

\* The whole per-file pipeline: what the scan decides and emits for one file.
\* TableScanMetrics: `#[derive(Default)]`, and no code adds to its counters;
\* the row filters evaluate without a reference to it
table_scan_metrics == [rows_pruned_by_row_filter |-> 0, rows_selected_by_row_filter |-> 0]

scan_file(file, index, key_type, all_keys, slot) ==
    LET ef == ef_stage(index, KeyColumn(key_type), key_type, all_keys)
        keys == ef.keys
        error == ef.reader /\ ~shortcut(keys) /\ empty_keys_error(file, key_type, keys)
        run == ef.reader /\ ~shortcut(keys) /\ ~error
        m == IF run THEN check_column_chunk(key_type, keys, file.groups, slot)
             ELSE None(<<>>)
        selected == IF run THEN selected_row_groups(key_type, keys, file.groups, slot)
                    ELSE <<>>
        sp == IF run THEN selected_pages(file, key_type, keys, selected) ELSE None(<<>>)
        ranges == IF run THEN selected_ranges(file, key_type, keys, selected) ELSE <<>>
        total == num_rows_in_selected_row_groups(file, selected)
        row_selection == from_consecutive_ranges(ranges, total)
    IN [keys |-> keys,
        reader |-> ef.reader,
        warned |-> ef.warned,
        error |-> error,
        footer_read |-> ef.reader,
        row_groups_match_statistics |-> m,
        bloom_consulted |-> IF run
                            THEN bloom_filter_consulted(key_type, keys, file.groups, slot)
                            ELSE {},
        selected_row_groups |-> selected,
        selected_pages |-> sp,
        selected_ranges |-> ranges,
        emitted |-> IF run THEN emitted_rows(file, key_type, all_keys, selected, ranges)
                    ELSE <<>>,
        files_pruned_by_ef_index |-> ef.files_pruned_by_ef_index,
        files_selected_by_ef_index |-> ef.files_selected_by_ef_index,
        row_selection_panic |-> row_selection.panic,
        rows_selected_by_page_index |-> row_selection.row_count,
        rows_pruned_by_page_index |-> row_selection.skipped_row_count,
        rows_selected_by_row_filter |-> table_scan_metrics.rows_selected_by_row_filter,
        rows_pruned_by_row_filter |-> table_scan_metrics.rows_pruned_by_row_filter]

(***************************************************************************)
(* ProvenanceService (queries.rs).  A SWHID is <<"swh:1:cnt", hash>>; the  *)
(* graph knows the hashes of KeyDomain, and numbers its nodes by them.     *)
(***************************************************************************)
Swhids == {<<"swh:1:cnt", h>> : h \in 0..(MaxKey + 1)}

\* ProvenanceService::node_id of one SWHID: Status::not_found for a SWHID the
\* graph does not know
node_id(swhid) ==
    IF swhid[2] \in KeyDomain THEN Some(<<swhid[2]>>) ELSE None(<<>>)

\* The revrel column of a row of c_in_r: the row's own anchor node.
revrel(f, id) == <<"revrel", f, id[1], id[2]>>

\* ProvenanceService::swhid: todo!("node to swhid") with and without a graph
swhids_of(node_ids) == [panic |-> TRUE, v |-> <<>>]

\* The end of whereis: `let mut anchors = self.swhid(c_in_r_batches).await?`,
\* then the reply with the popped anchor, or without anchor
whereis_reply(swhid, anchors) ==
    IF anchors.panic
    THEN [outcome |-> "panic", swhid |-> swhid, anchor |-> None(<<>>)]
    ELSE IF anchors.v # <<>>
    THEN [outcome |-> "ok", swhid |-> swhid, anchor |-> Some(anchors.v[Len(anchors.v)])]
    ELSE [outcome |-> "ok", swhid |-> swhid, anchor |-> None(<<>>)]

NoWhereIs == [outcome |-> "none", swhid |-> <<>>, anchor |-> None(<<>>)]

(***************************************************************************)
(* The service over the synthetic dataset of test_databases: the graph     *)
(*     rev0 -> dir1 -> cnt2        dir3 -> cnt4                            *)
(* whose nodes are numbered in the order gen_graph adds them.  A request   *)
(* string is a tuple of its parts, <<"swh", 1, type, hash>> when it is     *)
(* well-formed.                                                            *)
(***************************************************************************)
\* SWHIDs in one request.
MaxRequest == 2

NodeTypes == {"cnt", "dir", "rev"}

\* The strings clients send: the contents and the frontier directory of
\* the dataset, a content named with the hash of a directory, a content
\* the dataset does not hold, a truncated SWHID and a string that is none.
Requested ==
    {<<"swh", 1, "cnt", 2>>, <<"swh", 1, "cnt", 4>>, <<"swh", 1, "dir", 1>>,
     <<"swh", 1, "cnt", 1>>, <<"swh", 1, "cnt", 5>>,
     <<"swh", 1, "cnt">>, <<"not-a-swhid">>}

Requests == UNION {[1..n -> Requested] : n \in 0..MaxRequest}

\* SWHID::from_str
from_str(s) ==
    IF Len(s) = 4 /\ s[1] = "swh" /\ s[2] = 1 /\ s[3] \in NodeTypes /\ s[4] \in Nat
    THEN Some([node_type |-> s[3], hash |-> s[4]])
    ELSE None([node_type |-> "cnt", hash |-> 0])

\* SWHID's Display
to_string(swhid) == <<"swh", 1, swhid.node_type, swhid.hash>>

\* gen_graph: the nodes, node id i - 1 at position i, and the arcs
GraphNodes ==
    <<[node_type |-> "rev", hash |-> 0], [node_type |-> "dir", hash |-> 1],
      [node_type |-> "cnt", hash |-> 2], [node_type |-> "dir", hash |-> 3],
      [node_type |-> "cnt", hash |-> 4]>>
GraphArcs == {<<0, 1>>, <<1, 2>>, <<3, 4>>}
NodeIds == {i - 1 : i \in DOMAIN GraphNodes}
NodesOfType(t) == {n \in NodeIds : GraphNodes[n + 1].node_type = t}

\* The frontier directories gen_database marks, and the other choice for
\* the same graph: none.
Frontiers == {{1}, {}}

\* The tables the database builder writes for the graph and a set of
\* frontier directories: the node table, contents in revisions not through
\* a frontier directory, contents in frontier directories, frontier
\* directories in revisions.
node_table ==
    {[id |-> n, type |-> GraphNodes[n + 1].node_type,
      sha1_git |-> GraphNodes[n + 1].hash] : n \in NodeIds}
\* The node tables a service is run on: that of the dataset, and one in
\* which content 2 has a second row.
NodeTables == {node_table, node_table \cup {[id |-> 5, type |-> "cnt", sha1_git |-> 2]}}
c_in_r(frontier) ==
    {cr \in NodesOfType("cnt") \X NodesOfType("rev") :
        \E d \in NodesOfType("dir") \ frontier :
            <<cr[2], d>> \in GraphArcs /\ <<d, cr[1]>> \in GraphArcs}
c_in_d(frontier) ==
    {cd \in NodesOfType("cnt") \X frontier : <<cd[2], cd[1]>> \in GraphArcs}
d_in_r(frontier) ==
    {dr \in frontier \X NodesOfType("rev") : <<dr[2], dr[1]>> \in GraphArcs}

\* What can fail inside one lookup.
Faults ==
    {"none", "graph_internal", "node_open", "node_batch", "c_in_r_open", "c_in_r_batch"}

\* The three ways a call of the query layer ends without panicking: a
\* value, a tonic::Status for the client, an anyhow::Error (the chain of
\* its contexts, outermost first).
Line(text, swhids) == [text |-> text, swhids |-> swhids]
NoStatus == [code |-> "Ok", message |-> Line("", {})]
Good(v) == [kind |-> "ok", v |-> v, status |-> NoStatus, error |-> <<>>]
Rejected(code, text, swhids) ==
    [kind |-> "status", v |-> <<>>,
     status |-> [code |-> code, message |-> Line(text, swhids)], error |-> <<>>]
Failed(chain) == [kind |-> "error", v |-> <<>>, status |-> NoStatus, error |-> chain]
Panicked == [kind |-> "panic", v |-> <<>>, status |-> NoStatus, error |-> <<>>]

\* The causes underneath the contexts
IoError == Line("No such file or directory (os error 2)", {})
ParquetError == Line("Parquet error: EOF: eof", {})

\* node_id with a graph: one node_id_from_string_swhid per SWHID, in order,
\* and the first one that fails ends the call
RECURSIVE graph_node_ids(_, _)
graph_node_ids(swhids, fault) ==
    IF swhids = <<>> THEN Good(<<>>)
    ELSE LET swhid == Head(swhids)
             parsed == from_str(swhid)
             found == {n \in NodeIds : GraphNodes[n + 1] = parsed.v}
         IN IF ~parsed.some
            THEN Rejected("InvalidArgument", "Unknown SWHID", {swhid})
            ELSE IF found = {}
            THEN Rejected("NotFound", "Unknown SWHID", {swhid})
            ELSE IF fault = "graph_internal"
            THEN Failed(<<Line("graph backend failure", {})>>)
            ELSE LET rest == graph_node_ids(Tail(swhids), fault)
                 IN IF rest.kind = "ok"
                    THEN Good(<<CHOOSE n \in found : TRUE>> \o rest.v)
                    ELSE rest

\* A parse loop that lets every string through.
malformed_none(swhids) == {}
\* The strings on which `.parse()` fails in the loop over the request
malformed_in(swhids) == {i \in DOMAIN swhids : ~from_str(swhids[i]).some}

\* `sha1_gits.len() != sha1_gits_set.len()`
has_duplicates(parsed) ==
    Cardinality({parsed[i].hash : i \in DOMAIN parsed}) # Len(parsed)

\* The rows of the node table the scan for the hashes returns: the row
\* filter looks at sha1_git only.
node_rows(rows, parsed) ==
    {r \in rows : r.sha1_git \in {parsed[i].hash : i \in DOMAIN parsed}}

\* A loop over the returned rows that takes every row.
rows_never_rejected(batches, parsed) == {}
\* The SWHIDs of the returned rows on which `unknown_swhids.remove(&swhid)`
\* is false: not in the query, or already removed for an earlier row
rows_rejected(batches, parsed) ==
    {w \in {[node_type |-> r.type, hash |-> r.sha1_git] : r \in batches} :
        \/ w \notin Range(parsed)
        \/ Cardinality({r \in batches : r.type = w.node_type /\ r.sha1_git = w.hash}) > 1}

\* node_ids_from_swhids: node_id without a graph.  scanned says whether the
\* table scan was started.
node_ids_from_swhids(rows, swhids, fault) ==
    LET parsed == [i \in DOMAIN swhids |-> from_str(swhids[i]).v]
        malformed == malformed_in(swhids)
        first == CHOOSE i \in malformed : \A j \in malformed : i <= j
        batches == node_rows(rows, parsed)
        decoded == {[node_type |-> r.type, hash |-> r.sha1_git] : r \in batches}
        foreign == rows_rejected(batches, parsed)
        unknown_swhids == Range(parsed) \ decoded
    IN IF malformed # {}
       THEN [scanned |-> FALSE,
             res |-> Rejected("InvalidArgument", "is not a valid SWHID", {swhids[first]})]
       ELSE IF has_duplicates(parsed)
       THEN [scanned |-> FALSE,
             res |-> Rejected("Unimplemented", "Duplicated SWHIDs in input", {})]
       ELSE IF fault = "node_open"
       THEN [scanned |-> TRUE,
             res |-> Failed(<<Line("Could not open stream", {}), IoError>>)]
       ELSE IF fault = "node_batch"
       THEN [scanned |-> TRUE,
             res |-> Failed(<<Line("Could not read batch", {}), ParquetError>>)]
       ELSE IF foreign # {}
       THEN [scanned |-> TRUE,
             res |-> Failed(<<Line("Database returned SWHID not in query",
                                   {to_string(CHOOSE w \in foreign : TRUE)})>>)]
       ELSE IF unknown_swhids # {}
       THEN [scanned |-> TRUE,
             res |-> Rejected("NotFound", "Unknown SWHIDs",
                              {to_string(w) : w \in unknown_swhids})]
       ELSE [scanned |-> TRUE,
             res |-> Good(SortedSeqOf({r.id : r \in batches}))]

\* ProvenanceService::node_id and ProvenanceServiceInner::node_id:
\* `match &self.graph`
service_node_id(graph, node, swhids, fault) ==
    IF graph THEN graph_node_ids(swhids, fault)
    ELSE node_ids_from_swhids(node, swhids, fault).res
\* Whether that call started a scan of the node table
node_table_scanned(graph, node, swhids, fault) ==
    ~graph /\ node_ids_from_swhids(node, swhids, fault).scanned

\* ProvenanceServiceInner::whereis, the one the RPC handlers call: the node
\* id, then todo!("whereis")
inner_whereis(graph, node, swhid, fault) ==
    LET node_ids == service_node_id(graph, node, <<swhid>>, fault)
    IN IF node_ids.kind # "ok" THEN node_ids ELSE Panicked

\* ProvenanceService::whereis of queries.rs over the dataset
service_whereis(graph, node, frontier, swhid, fault) ==
    LET node_ids == service_node_id(graph, node, <<swhid>>, fault)
        rows == {cr \in c_in_r(frontier) : cr[1] \in Range(node_ids.v)}
        c_in_r_batches == SortedSeqOf({cr[2] : cr \in rows})
        reply == whereis_reply(swhid, swhids_of(c_in_r_batches))
    IN IF node_ids.kind # "ok" THEN node_ids
       ELSE IF fault = "c_in_r_open"
       THEN Failed(<<Line("Could not query c_in_r", {}),
                     Line("Could not start reading from table", {}),
                     Line("Could not open stream", {}), IoError>>)
       ELSE IF fault = "c_in_r_batch"
       THEN Failed(<<Line("Could not read batch", {}), ParquetError>>)
       ELSE IF reply.outcome = "panic" THEN Panicked
       ELSE Good(reply)

\* `tonic::Status::internal(e.to_string())`: anyhow's Display is the outermost
\* context
internal_status(e) == [code |-> "Internal", message |-> e[1]]

\* The match of where_is_one and where_are_one on what whereis returned:
\* the gRPC reply, and what tracing::error! wrote ({:?}: the whole chain).
rpc_reply(outcome) ==
    IF outcome.kind = "ok"
    THEN [status |-> NoStatus, result |-> Some(outcome.v), logged |-> <<>>]
    ELSE IF outcome.kind = "status"
    THEN [status |-> outcome.status, result |-> None(NoWhereIs), logged |-> <<>>]
    ELSE [status |-> internal_status(outcome.error), result |-> None(NoWhereIs),
          logged |-> outcome.error]

(***************************************************************************)
(* ParquetFileReaderPool (database/pooled_reader.rs).  Readers are         *)
(* numbered 1, 2, ... in the order the factory makes them; 0 is "none".    *)
(***************************************************************************)
\* Tasks that acquire and release readers concurrently.
NumThreads == 3
\* Readers the factory makes before it can only fail.
MaxReaders == 2

Threads == 1..NumThreads

\* A pop that leaves the element in the queue.
queue_not_popped(q) == q
\* A match that goes to reader_init whatever pop returned.
match_always_init(q) == "init"

\* SegQueue::pop: the popped element and the queue after it
popped_reader(q) == Head(q)
queue_after_pop(q) == Tail(q)
\* try_get_reader, `match self.0.pop()`: the arm taken, None => reader_init()?,
\* Some(reader) => reader
try_get_reader_match(q) == IF q = <<>> THEN "init" ELSE "wrap"
\* A push that loses the reader.
queue_push_lost(q, r) == q
\* SegQueue::push
queue_after_push(q, r) == Append(q, r)

\* An upgrade that succeeds whether or not the pool is still there.
upgrade_always(alive) == TRUE
\* Weak::upgrade on the lease's back-reference: Some(pool) iff a strong
\* reference to the queue is left
upgrade(alive) == alive

IdleThread == [pc |-> "idle", inner |-> 0, lease |-> 0, calls |-> 0, ret |-> "none"]

(***************************************************************************)
(* CachingParquetFileReader: the metadata cache of a pooled reader, as     *)
(* written in database/caching_parquet_reader.rs and in                    *)
(* database/parquet.rs.  A ParquetMetaData is [reader, id, by, page_index]:*)
(* the reader it was read through, the inner read that produced it, the    *)
(* task that asked for it, and whether it carries the column index and the *)
(* offset index.                                                           *)
(***************************************************************************)
\* Footer reads asked of the inner reader of one reader.
MaxInnerCalls == 2

Readers == 1..MaxReaders
Impls == {"caching_parquet_reader", "parquet"}
NoMetadata == [reader |-> 0, id |-> 0, by |-> 0, page_index |-> FALSE]
NothingGot == [res |-> "none", from |-> "none", md |-> NoMetadata]

\* A get_metadata that reads the footer again although the cache is filled.
get_metadata_uncached(cache, r, n, t, footer_ok, page_index_ok) ==
    IF footer_ok /\ page_index_ok
    THEN LET md == [reader |-> r, id |-> n + 1, by |-> t, page_index |-> TRUE]
         IN [metadata |-> Some(md), inner_calls |-> n + 1,
             got |-> [res |-> "ok", from |-> "inner", md |-> md]]
    ELSE [metadata |-> cache, inner_calls |-> n + 1,
          got |-> [res |-> "err", from |-> "inner", md |-> NoMetadata]]

\* A get_metadata that keeps the footer it read when the page index fails
\* to load.
get_metadata_keeps_footer(cache, r, n, t, footer_ok, page_index_ok) ==
    IF cache.some
    THEN [metadata |-> cache, inner_calls |-> n,
          got |-> [res |-> "ok", from |-> "cache", md |-> cache.v]]
    ELSE IF footer_ok
    THEN LET md == [reader |-> r, id |-> n + 1, by |-> t, page_index |-> page_index_ok]
         IN [metadata |-> Some(md), inner_calls |-> n + 1,
             got |-> [res |-> IF page_index_ok THEN "ok" ELSE "err", from |-> "inner",
                      md |-> IF page_index_ok THEN md ELSE NoMetadata]]
    ELSE [metadata |-> cache, inner_calls |-> n + 1,
          got |-> [res |-> "err", from |-> "inner", md |-> NoMetadata]]

\* caching_parquet_reader.rs, CachingParquetFileReader::get_metadata_async on
\* reader r, leased by task t, whose inner reader was asked for the footer n
\* times: the cache,
\* the inner calls and the result after the call.  footer_ok is the outcome
\* of self.inner.get_metadata(), page_index_ok of loader.load_page_index.
get_metadata_async(cache, r, n, t, footer_ok, page_index_ok) ==
    IF cache.some
    THEN [metadata |-> cache, inner_calls |-> n,
          got |-> [res |-> "ok", from |-> "cache", md |-> cache.v]]
    ELSE IF footer_ok /\ page_index_ok
    THEN LET md == [reader |-> r, id |-> n + 1, by |-> t, page_index |-> TRUE]
         IN [metadata |-> Some(md), inner_calls |-> n + 1,
             got |-> [res |-> "ok", from |-> "inner", md |-> md]]
    ELSE [metadata |-> cache, inner_calls |-> n + 1,
          got |-> [res |-> "err", from |-> "inner", md |-> NoMetadata]]

\* parquet.rs, <CachingParquetFileReader as AsyncFileReader>::get_metadata:
\* self.inner.get_metadata(), the bare footer, nothing cached
get_metadata_inner(cache, r, n, t, footer_ok) ==
    [metadata |-> cache, inner_calls |-> n + 1,
     got |-> IF footer_ok
             THEN [res |-> "ok", from |-> "inner",
                   md |-> [reader |-> r, id |-> n + 1, by |-> t, page_index |-> FALSE]]
             ELSE [res |-> "err", from |-> "inner", md |-> NoMetadata]]

\* parquet.rs, <CachingParquetFileReader as ParquetFileReader>::load_metadata:
\* page_index is options.page_index of the caller, ok the outcome of
\* self.inner.load_metadata(options)
load_metadata(cache, r, n, t, page_index, ok) ==
    IF cache.some
    THEN [metadata |-> cache, inner_calls |-> n,
          got |-> [res |-> "ok", from |-> "cache", md |-> cache.v]]
    ELSE IF ok
    THEN LET md == [reader |-> r, id |-> n + 1, by |-> t, page_index |-> page_index]
         IN [metadata |-> Some(md), inner_calls |-> n + 1,
             got |-> [res |-> "ok", from |-> "inner", md |-> md]]
    ELSE [metadata |-> cache, inner_calls |-> n + 1,
          got |-> [res |-> "err", from |-> "inner", md |-> NoMetadata]]

(***************************************************************************)
(* The flattening channel of a scan (database/table.rs): one producer task *)
(* per selected file sends the batches of its ParquetRecordBatchStream     *)
(* into a tokio mpsc channel, the caller reads the ReceiverStream.  A      *)
(* batch is <<producer, position in its file>>.                            *)
(***************************************************************************)
\* num_cpus::get() of the machine.
num_cpus == 1
\* Files with a reader stream in the scan.
NumProducers == 2
\* Record batches in the stream of one file.
MaxBatches == 2

Producers == 1..NumProducers
\* tokio::sync::mpsc::channel(num_cpus::get() * 2)
Capacity == num_cpus * 2

\* A channel that hands out its newest message first.
channel_push_front(ch, batch) == <<batch>> \o ch
\* the channel after a send that got a permit
channel_after_send(ch, batch) == Append(ch, batch)

\* A channel that always has a permit left.
channel_never_full(ch) == FALSE
\* no permit left: Sender::send waits
channel_full(ch) == Len(ch) >= Capacity

\* A channel whose first sender is kept by the stream it feeds.
sender_kept(producers) == FALSE
\* Every Sender is gone: the `tx` of the function is dropped when it returns
\* and each clone when its task ends
senders_dropped(producers) == \A p \in DOMAIN producers : producers[p].pc = "done"

\* A producer that goes on reading after a failed send.
after_send_error_continue(closed) == "next"
\* the producer loop after tx.send(..).await: is_err() => break
after_send(closed) == IF closed THEN "done" ELSE "next"

(***************************************************************************)
(* State.                                                                  *)
(***************************************************************************)
VARIABLES
    service,    \* the ProvenanceService: [graph, frontier], with or without a graph
    request,    \* the SWHID strings of the RPC being served
    outcomes,   \* per SWHID of the request: what its whereis call returned
    response,   \* what the handler has handed to tonic so far, in order
    scanned,    \* the last node_id call started a scan of the node table
    handler     \* what is served: "idle"; "returned" (whereis of queries.rs);
                \* "node_ids" (node_id of queries.rs);
                \* where_is_one: "replied" or "aborted" (it panicked);
                \* where_are_one: "streaming", "done" or "panicked"

VARIABLES
    directory,  \* the Parquet files of a table directory, as their footers:
                \* [schema, key_value_metadata]
    table_new,  \* what Table::new made of the directory
    column,     \* the key column of one file, as the batches the reader yields
    ef_built    \* the index build_ef_index built from the column

VARIABLES
    streams,    \* per producer: the number of batches its file's stream yields
    prod,       \* per producer: [pc, read], where it is in its loop
    channel,    \* the messages in the mpsc channel
    rx,         \* the ReceiverStream: "open" or "dropped"
    output      \* the batches the caller got from the ReceiverStream, in order

VARIABLES
    table,      \* the table on disk: [key_type, files]
    indexes,    \* FileReader.ef_index of each file
    startup,    \* outcome of Table::mmap_ef_index: "none", "ok" or "failed"
    scan,       \* the keyed scan in progress: its arguments and what it did per file
    whereis,    \* the whereis request the scan in progress serves, and its outcome
    pool_alive, \* the Arc<SegQueue> of the pool still has a strong reference
    queue,      \* the SegQueue of idle readers
    created,    \* readers made by reader_init so far
    thr,        \* per task: where it is in try_get_reader / drop, and what it holds
    impl,       \* the source file the pool's CachingParquetFileReader is from
    metadata,   \* CachingParquetFileReader.metadata of each reader
    inner_calls, \* footer reads asked of the inner reader of each reader
    got         \* per task: what its last metadata call on its lease returned

VARIABLES
    factories,  \* CachingParquetFormat.factories: per object-store URL, the factory
                \* in the map (0: none), a factory being named by its rank among
                \* the factories factory_init made for the URL
    factory_inits, \* per URL: the factories factory_init has made
    plans       \* per task: where it is in create_physical_plan, and its plan's factory

VARIABLES
    swh_graph,  \* compute-earliest-timestamps: the graph, its node filter and dates
    timestamps, \* the array of AtomicI64, one per node
    traversals, \* per node: where its mark_reachable_contents is: [pc, stack, visited]
    timestamps_out \* the words written to the output file, <<>> before that

VARIABLES
    ctx,        \* the tables registered in the SessionContext: [name, data], data
                \* telling whether the rows are a batch or the result of a query
    last_txid,  \* ProvenanceDatabase.last_txid
    transactions \* per Transaction made: [state, temporary_tables, last_table_id]

scanVars == <<table, indexes, startup, scan, whereis>>
cacheVars == <<impl, metadata, inner_calls, got>>
poolVars == <<pool_alive, queue, created, thr, impl, metadata, inner_calls, got>>
streamVars == <<streams, prod, channel, rx, output>>
serviceVars == <<service, request, outcomes, response, scanned, handler>>
loadVars == <<directory, table_new, column, ef_built>>
sessionVars == <<factories, factory_inits, plans>>
buildVars == <<swh_graph, timestamps, traversals, timestamps_out>>
txVars == <<ctx, last_txid, transactions>>
vars == <<table, indexes, startup, scan, whereis, pool_alive, queue, created, thr,
          impl, metadata, inner_calls, got, streams, prod, channel, rx, output,
          service, request, outcomes, response, scanned, handler,
          directory, table_new, column, ef_built,
          factories, factory_inits, plans,
          swh_graph, timestamps, traversals, timestamps_out,
          ctx, last_txid, transactions>>
\* What the actions of one part of the model leave alone
notScan == <<poolVars, streamVars, serviceVars, loadVars, sessionVars, buildVars,
             txVars>>
notPool == <<scanVars, streamVars, serviceVars, loadVars, sessionVars, buildVars,
             txVars>>
notStream == <<scanVars, poolVars, serviceVars, loadVars, sessionVars, buildVars,
             txVars>>
notService == <<scanVars, poolVars, streamVars, loadVars, sessionVars, buildVars,
             txVars>>
notLoad == <<scanVars, poolVars, streamVars, serviceVars, sessionVars, buildVars,
             txVars>>
notSession == <<scanVars, poolVars, streamVars, serviceVars, loadVars, buildVars,
             txVars>>
notBuild == <<scanVars, poolVars, streamVars, serviceVars, loadVars, sessionVars,
             txVars>>
notTx == <<scanVars, poolVars, streamVars, serviceVars, loadVars, sessionVars,
          buildVars>>

\* No transaction was made and no temporary table is registered.
TxIdle ==
    /\ ctx = {}
    /\ last_txid = 0
    /\ transactions = <<>>

\* No graph is loaded and nothing is computed from it.
BuildIdle ==
    /\ swh_graph = [node_type |-> <<>>, successors |-> <<>>, author_timestamp |-> <<>>,
                    accepted |-> {}]
    /\ timestamps = <<>>
    /\ traversals = <<>>
    /\ timestamps_out = <<>>

\* Tasks that call create_physical_plan concurrently.
NumPlanners == 3
\* The object stores plans are made for, and the tasks that make them.
Urls == {"file://", "s3://"}
Planners == 1..NumPlanners
NoPlan == [pc |-> "idle", url |-> "", vacant |-> FALSE, factory |-> 0]
\* No plan is being made.
SessionIdle ==
    /\ factories = [u \in Urls |-> 0]
    /\ factory_inits = [u \in Urls |-> 0]
    /\ plans = [t \in Planners |-> NoPlan]

\* No RPC is being served.
ServiceIdle ==
    /\ service = [graph |-> TRUE, node |-> node_table, frontier |-> {1}]
    /\ request = <<>>
    /\ outcomes = <<>>
    /\ response = <<>>
    /\ scanned = FALSE
    /\ handler = "idle"

\* Nothing is being loaded or built.
NotLoaded ==
    [done |-> FALSE, ok |-> FALSE, error |-> "", schema |-> "", key_value_metadata |-> ""]
NotBuilt == [done |-> FALSE, panic |-> FALSE, values |-> <<>>]
LoadIdle ==
    /\ directory = <<>>
    /\ table_new = NotLoaded
    /\ column = <<>>
    /\ ef_built = NotBuilt

\* No scan has spawned producers.
StreamIdle ==
    /\ streams = [p \in Producers |-> 0]
    /\ prod = [p \in Producers |-> [pc |-> "done", read |-> 0]]
    /\ channel = <<>>
    /\ rx = "open"
    /\ output = <<>>

NoScan == [active |-> FALSE, keys |-> <<>>, slot |-> 0, files |-> <<>>]
FileIds == DOMAIN table.files

PoolInit ==
    /\ pool_alive = TRUE
    /\ queue = <<>>
    /\ created = 0
    /\ thr = [t \in Threads |-> IdleThread]
    /\ impl = "caching_parquet_reader"
    /\ metadata = [r \in Readers |-> None(NoMetadata)]
    /\ inner_calls = [r \in Readers |-> 0]
    /\ got = [t \in Threads |-> NothingGot]

\* Sha1Git statistics are never read (check_column_chunk returns None), so the
\* node table is taken with them present.
ScanInit ==
    /\ \E kt \in KeyTypes, stats \in BOOLEAN, bloom \in BloomKinds, pi \in BOOLEAN,
          run \in SortedRuns :
        \E cuts \in [1..(Len(run) - 1) -> Cuts] :
          \E ef \in SUBSET (1..NumFilesOf(cuts)) :
            /\ kt = "sha1_git" => stats
            /\ table = [key_type |-> kt,
                        files |-> MakeFiles(run, cuts, stats, bloom, pi, ef)]
    /\ indexes = [f \in FileIds |-> UnsetIndex]
    /\ startup = "none"
    /\ scan = NoScan
    /\ whereis = NoWhereIs

(***************************************************************************)
(* The scan: startup, then keyed scans of the table.                       *)
(***************************************************************************)
Init == ScanInit /\ PoolInit /\ StreamIdle /\ ServiceIdle /\ LoadIdle /\ SessionIdle
        /\ BuildIdle /\ TxIdle
    /\ TxIdle

\* The value under a null of the statistics arrays matters only when some row
\* group has no statistics.
SlotValues ==
    IF \E f \in FileIds : \E g \in DOMAIN table.files[f].groups :
          ~table.files[f].groups[g].stats
    THEN KeyDomain ELSE {0}

\* A request is being served.
Busy == scan.active \/ whereis.outcome # "none"

\* Table::mmap_ef_index at startup (grpc-serve: db.mmap_ef_indexes()?)
MmapEfIndexes ==
    /\ startup = "none"
    /\ ~Busy
    /\ LET stop == FirstMissing(table.files)
       IN /\ indexes' = [f \in FileIds |->
                IF f < stop
                THEN mmap_ef_index(indexes[f], table.files[f], IndexedColumn(table.key_type))
                ELSE indexes[f]]
          /\ startup' = IF stop > Len(table.files) THEN "ok" ELSE "failed"
    /\ UNCHANGED <<table, scan, whereis>>
    /\ UNCHANGED notScan

\* One call of Table::filtered_record_batch_stream_builder with its stream
\* read to the end.  A failed startup ends the process: nothing is served.
Scan(keys, slot) ==
    /\ startup # "failed"
    /\ ~Busy
    /\ scan' = [active |-> TRUE, keys |-> keys, slot |-> slot,
                files |-> [f \in FileIds |->
                    scan_file(table.files[f], indexes[f], table.key_type, keys, slot)]]
    /\ UNCHANGED <<table, indexes, startup, whereis>>
    /\ UNCHANGED notScan

\* ProvenanceService::whereis: the node id of the SWHID, the scan of c_in_r
\* for it with all its batches collected, their conversion to SWHIDs, and
\* the reply made of the last anchor.  The table is c_in_r, keyed by cnt.
WhereIs(swhid, slot) ==
    /\ startup # "failed"
    /\ ~Busy
    /\ table.key_type = "u64"
    /\ LET node_ids == node_id(swhid)
           files == [f \in FileIds |->
                       scan_file(table.files[f], indexes[f], "u64", node_ids.v, slot)]
           c_in_r_batches == Concat([f \in FileIds |->
                       [i \in DOMAIN files[f].emitted |-> revrel(f, files[f].emitted[i])]])
       IN IF node_ids.some
          THEN /\ scan' = [active |-> TRUE, keys |-> node_ids.v, slot |-> slot,
                           files |-> files]
               /\ whereis' = whereis_reply(swhid, swhids_of(c_in_r_batches))
          ELSE /\ scan' = scan
               /\ whereis' = [outcome |-> "not_found", swhid |-> swhid,
                              anchor |-> None(<<>>)]
    /\ UNCHANGED <<table, indexes, startup>>
    /\ UNCHANGED notScan

\* The stream and its batches, or the reply, are dropped.
EndScan ==
    /\ Busy
    /\ scan' = NoScan
    /\ whereis' = NoWhereIs
    /\ UNCHANGED <<table, indexes, startup>>
    /\ UNCHANGED notScan

Next ==
    \/ MmapEfIndexes
    \/ \E keys \in KeySets, slot \in SlotValues : Scan(keys, slot)
    \/ \E swhid \in Swhids, slot \in SlotValues : WhereIs(swhid, slot)
    \/ EndScan

Spec == Init /\ [][Next]_vars

(***************************************************************************)
(* Properties of the keyed scan.                                           *)
(***************************************************************************)
File(f) == table.files[f]
Result(f) == scan.files[f]
QueryKeys == Range(scan.keys)
Emitted(f) == Range(Result(f).emitted)
AllRowIds(f) ==
    UNION {{<<g, j>> : j \in 1..NumRows(File(f).groups[g])} : g \in DOMAIN File(f).groups}
\* The rows of the ranges handed to the decoder
SelectedRowIds(f) ==
    LET ids == row_ids(File(f), Result(f).selected_row_groups)
        ranges == Result(f).selected_ranges
    IN {ids[i] : i \in {i \in DOMAIN ids :
            \E r \in DOMAIN ranges : ranges[r][1] <= i - 1 /\ i - 1 < ranges[r][2]}}
AllStatistics ==
    \A f \in FileIds : \A g \in DOMAIN File(f).groups : File(f).groups[g].stats
HasKeyIndex(f) == ef_index(indexes[f], KeyColumn(table.key_type)).some
Ran(f) == Result(f).reader /\ Result(f).keys # <<>>

\* C1: with statistics on every row group (and the Elias-Fano index, when
\* there is one, built from the file), a keyed scan emits every row of the
\* table whose key is one of the keys asked for.
C1_NoFalseNegatives ==
    (scan.active /\ AllStatistics) =>
        \A f \in FileIds : \A id \in AllRowIds(f) :
            RowKey(File(f), id) \in QueryKeys => id \in Emitted(f)

\* C2: every emitted row has its key among the keys asked for, and of the
\* rows the earlier stages let through exactly those with such a key are
\* emitted.
C2_RowFilterExact ==
    scan.active =>
        \A f \in FileIds :
            /\ \A id \in Emitted(f) : RowKey(File(f), id) \in QueryKeys
            /\ \A id \in SelectedRowIds(f) :
                   id \in Emitted(f) <=> RowKey(File(f), id) \in QueryKeys

\* A scan with several keys where the row filter accepts one row it is handed
\* and rejects another.
C2_Witness ==
    /\ scan.active
    /\ Len(scan.keys) >= 2
    /\ \E f \in FileIds :
        /\ Emitted(f) # {}
        /\ SelectedRowIds(f) \ Emitted(f) # {}

\* C3: in the page-index stage for u64 keys, a page whose min and max both
\* equal a key asked for is selected, and a page whose [min, max] is disjoint
\* from [min(keys), max(keys)] is pruned.
C3_PageIndexKeepsKeyPages ==
    (scan.active /\ table.key_type = "u64") =>
        \A f \in FileIds : (Ran(f) /\ Result(f).selected_pages.some) =>
            LET prs == page_ranges(File(f).groups, Result(f).selected_row_groups, 0)
                keys == Result(f).keys
            IN \A i \in DOMAIN prs :
                LET page == File(f).groups[prs[i].row_group].pages[prs[i].page]
                IN /\ (SeqMin(page) = SeqMax(page) /\ SeqMin(page) \in QueryKeys)
                        => Result(f).selected_pages.v[i]
                   /\ (SeqMax(page) < SeqMin(keys) \/ SeqMin(page) > SeqMax(keys))
                        => ~Result(f).selected_pages.v[i]

\* C4: a row group without min/max statistics is never pruned by the
\* statistics stage.
C4_MissingStatisticsNeverPruned ==
    scan.active =>
        \A f \in FileIds : (Ran(f) /\ Result(f).row_groups_match_statistics.some) =>
            \A g \in DOMAIN File(f).groups :
                ~File(f).groups[g].stats => Result(f).row_groups_match_statistics.v[g]

\* C5: for u64 keys the statistics stage keeps a row group that has statistics
\* exactly when [min, max] of the group meets [min(keys), max(keys)]; a row
\* group whose min or max is a key asked for is kept.
C5_RowGroupStatistics ==
    (scan.active /\ table.key_type = "u64") =>
        \A f \in FileIds : Ran(f) =>
            \A g \in DOMAIN File(f).groups : File(f).groups[g].stats =>
                LET rows == GroupRows(File(f).groups[g])
                    keys == Result(f).keys
                    kept == Result(f).row_groups_match_statistics.v[g]
                IN /\ kept <=> \E v \in KeyDomain :
                                  /\ SeqMin(rows) <= v /\ v <= SeqMax(rows)
                                  /\ SeqMin(keys) <= v /\ v <= SeqMax(keys)
                   /\ (SeqMin(rows) \in QueryKeys \/ SeqMax(rows) \in QueryKeys) => kept

\* A file where one row group is kept because its max is the smallest key and
\* another row group with statistics is pruned.
C5_Witness ==
    /\ scan.active
    /\ table.key_type = "u64"
    /\ \E f \in FileIds :
        /\ Ran(f)
        /\ \E g1, g2 \in DOMAIN File(f).groups :
            /\ File(f).groups[g1].stats /\ File(f).groups[g2].stats
            /\ SeqMax(GroupRows(File(f).groups[g1])) = SeqMin(Result(f).keys)
            /\ Result(f).row_groups_match_statistics.v[g1]
            /\ ~Result(f).row_groups_match_statistics.v[g2]

\* C6: a file that has an Elias-Fano index on the scanned column is skipped
\* (no reader, no footer read, no rows) when none of the keys is in the file,
\* and otherwise is scanned with exactly the keys that are in it.
C6_EfIndexPrunesFiles ==
    scan.active =>
        \A f \in FileIds : HasKeyIndex(f) =>
            LET InFile(k) == k \in Range(FileRows(File(f)))
                present == SelectSeq(scan.keys, InFile)
            IN IF present = <<>>
               THEN /\ ~Result(f).reader
                    /\ ~Result(f).footer_read
                    /\ Result(f).selected_row_groups = <<>>
                    /\ Result(f).emitted = <<>>
               ELSE /\ Result(f).reader
                    /\ Result(f).keys = present

\* A scan that skips one indexed file and scans another with fewer keys than
\* were asked for.
C6_Witness ==
    /\ scan.active
    /\ \E f1, f2 \in FileIds :
        /\ HasKeyIndex(f1) /\ HasKeyIndex(f2)
        /\ scan.keys # <<>>
        /\ ~Result(f1).reader
        /\ Result(f2).reader
        /\ Len(Result(f2).keys) < Len(scan.keys)
        /\ Result(f2).emitted # <<>>

\* C7: a missing Elias-Fano index is never fatal: startup does not fail on
\* it, and a scan of a file without an index warns, keeps every key, acquires
\* the reader and emits every row whose key was asked for.
C7_MissingIndexNotFatal ==
    /\ startup # "failed"
    /\ scan.active =>
        \A f \in FileIds : ~HasKeyIndex(f) =>
            /\ Result(f).warned
            /\ Result(f).reader
            /\ Result(f).keys = scan.keys
            /\ \A id \in AllRowIds(f) :
                   RowKey(File(f), id) \in QueryKeys => id \in Emitted(f)

\* C8: for every key type, each candidate row group that has a Bloom filter
\* has it checked, and is selected exactly when at least one key tests
\* positive.
C8_BloomFilterChecked ==
    scan.active =>
        \A f \in FileIds : Ran(f) =>
            \A g \in DOMAIN File(f).groups :
                LET m == Result(f).row_groups_match_statistics
                    candidate == ~m.some \/ m.v[g]
                IN (candidate /\ File(f).groups[g].bloom # "none") =>
                    /\ g \in Result(f).bloom_consulted
                    /\ g \in Range(Result(f).selected_row_groups)
                         <=> \E k \in Range(Result(f).keys) :
                                bloom_check(File(f).groups[g], k)

\* The rows of the row groups selected before the i-th selected one
RowsBefore(f, i) ==
    LET sel == Result(f).selected_row_groups
    IN SumSeq([j \in 1..(i - 1) |-> NumRows(File(f).groups[sel[j]])])

\* [first_row_of_page, first_row_of_next_page), up to the end of the row
\* group for its last page, of page p of row group g
PageRange(f, g, p) ==
    LET rg == File(f).groups[g]
    IN <<first_row_index(rg, p),
         IF p < Len(rg.pages) THEN first_row_index(rg, p + 1) ELSE NumRows(rg)>>

PagePruned(f) == Ran(f) /\ Result(f).selected_pages.some

\* C19: when the page index is used, the ranges handed to the decoder are
\* exactly the ranges of the selected pages of the selected row groups, each
\* shifted by the rows of the row groups selected before its own; they are
\* ascending, do not overlap, lie within [0, rows of the selected row
\* groups), and rows selected plus rows pruned is that number of rows.
C19_RowSelectionRanges ==
    scan.active =>
        \A f \in FileIds : PagePruned(f) =>
            LET sel == Result(f).selected_row_groups
                ranges == Result(f).selected_ranges
                total == SumSeq([i \in DOMAIN sel |-> NumRows(File(f).groups[sel[i]])])
                expected ==
                    {<<RowsBefore(f, i) + PageRange(f, sel[i], p)[1],
                       RowsBefore(f, i) + PageRange(f, sel[i], p)[2]>> :
                        <<i, p>> \in {ip \in (DOMAIN sel) \X (1..MaxRows) :
                            /\ ip[2] <= Len(File(f).groups[sel[ip[1]]].pages)
                            /\ check_page_index(table.key_type, Result(f).keys,
                                   File(f).groups[sel[ip[1]]].pages[ip[2]])}}
            IN /\ Range(ranges) = expected
               /\ Len(ranges) = Cardinality(expected)
               /\ \A r \in DOMAIN ranges :
                      /\ 0 <= ranges[r][1]
                      /\ ranges[r][1] < ranges[r][2]
                      /\ ranges[r][2] <= total
                      /\ r > 1 => ranges[r - 1][2] <= ranges[r][1]
               /\ ~Result(f).row_selection_panic
               /\ Result(f).rows_selected_by_page_index = RangeRows(ranges)
               /\ Result(f).rows_selected_by_page_index
                      + Result(f).rows_pruned_by_page_index = total

\* Two row groups are selected, a page of the first is pruned and a page of
\* the second is selected: its range is shifted by the rows of the first.
C19_Witness ==
    /\ scan.active
    /\ \E f \in FileIds :
           /\ PagePruned(f)
           /\ Len(Result(f).selected_row_groups) >= 2
           /\ Result(f).rows_pruned_by_page_index > 0
           /\ \E r \in DOMAIN Result(f).selected_ranges :
                  Result(f).selected_ranges[r][1]
                      >= NumRows(File(f).groups[Result(f).selected_row_groups[1]])

\* C20: whereis of a known SWHID whose node has a row in c_in_r replies
\* with that SWHID and, as anchor, the SWHID of the revrel of one of the
\* rows of that cnt.
C20_WhereIsFindsAnchor ==
    (scan.active /\ whereis.outcome # "none" /\ node_id(whereis.swhid).some) =>
        LET cnt == node_id(whereis.swhid).v[1]
            paired == {<<"swh:1:rev", revrel(f, id)>> :
                          <<f, id>> \in {fi \in FileIds \X ((1..MaxRows) \X (1..MaxRows)) :
                              /\ fi[2] \in AllRowIds(fi[1])
                              /\ RowKey(File(fi[1]), fi[2]) = cnt}}
        IN paired # {} =>
              /\ whereis.outcome = "ok"
              /\ whereis.swhid[2] = cnt
              /\ whereis.anchor.some
              /\ whereis.anchor.v \in paired

\* C31: for every file a scan read to its end, the rows the row filter
\* selected plus the rows it pruned are the rows of the pages the page
\* index stage selected.
C31_RowFilterMetricsAddUp ==
    scan.active =>
        \A f \in FileIds :
            (Result(f).reader /\ ~Result(f).error /\ ~Result(f).row_selection_panic) =>
                Result(f).rows_selected_by_row_filter + Result(f).rows_pruned_by_row_filter
                    = Result(f).rows_selected_by_page_index

\* C18: a keyed scan called with no key emits no row of any file and
\* returns no error, whatever the table holds and whether or not the files
\* have their Elias-Fano index.
C18_EmptyKeysEmptyStream ==
    (scan.active /\ scan.keys = <<>>) =>
        \A f \in FileIds : Result(f).emitted = <<>> /\ ~Result(f).error

\* A scan with no key of a table read without its indexes: every file got a
\* reader and took the shortcut of the second stage.
C18_Witness ==
    /\ scan.active
    /\ scan.keys = <<>>
    /\ Len(table.files) >= 2
    /\ \A f \in FileIds :
           /\ ~HasKeyIndex(f)
           /\ Result(f).reader
           /\ Result(f).selected_row_groups = <<>>
           /\ File(f).page_index

(***************************************************************************)
(* The pool: tasks that call try_get_reader and drop what they got.        *)
(***************************************************************************)
\* A table with one row, left alone while the pool runs.
PoolTable == [key_type |-> "u64",
              files |-> MakeFiles(<<0>>, <<>>, TRUE, "none", TRUE, {1})]

PoolSpecInit ==
    /\ PoolInit
    /\ StreamIdle
    /\ ServiceIdle
    /\ LoadIdle
    /\ SessionIdle
    /\ BuildIdle
    /\ TxIdle
    /\ table = PoolTable
    /\ indexes = [f \in FileIds |-> UnsetIndex]
    /\ startup = "none"
    /\ scan = NoScan
    /\ whereis = NoWhereIs

\* try_get_reader, `self.0.pop()`: Some(reader) goes on to be wrapped, None
\* goes on to reader_init
Pop(t) ==
    /\ pool_alive
    /\ thr[t].pc = "idle"
    /\ thr' = [thr EXCEPT ![t] =
                [pc |-> try_get_reader_match(queue),
                 inner |-> IF queue # <<>> THEN popped_reader(queue) ELSE 0,
                 lease |-> 0, calls |-> 0, ret |-> "none"]]
    /\ queue' = IF queue # <<>> THEN queue_after_pop(queue) ELSE queue
    /\ got' = [got EXCEPT ![t] = NothingGot]
    /\ UNCHANGED <<pool_alive, created, impl, metadata, inner_calls>>
    /\ UNCHANGED notPool

\* try_get_reader, `reader_init()?` returning Ok(reader)
InitOk(t) ==
    /\ thr[t].pc = "init"
    /\ created < MaxReaders
    /\ created' = created + 1
    /\ thr' = [thr EXCEPT ![t].pc = "wrap", ![t].inner = created + 1,
                          ![t].calls = thr[t].calls + 1]
    /\ UNCHANGED <<pool_alive, queue>>
    /\ UNCHANGED cacheVars
    /\ UNCHANGED notPool

\* try_get_reader, `reader_init()?` returning Err(e): the error is returned
InitErr(t) ==
    /\ thr[t].pc = "init"
    /\ thr' = [thr EXCEPT ![t].pc = "idle", ![t].calls = thr[t].calls + 1,
                          ![t].ret = "err"]
    /\ UNCHANGED <<pool_alive, queue, created>>
    /\ UNCHANGED cacheVars
    /\ UNCHANGED notPool

\* try_get_reader, Ok(Box::new(PooledParquetFileReader::new(inner_reader, weak)))
Wrap(t) ==
    /\ thr[t].pc = "wrap"
    /\ thr' = [thr EXCEPT ![t].pc = "leased", ![t].lease = thr[t].inner,
                          ![t].inner = 0, ![t].ret = "ok"]
    /\ UNCHANGED <<pool_alive, queue, created>>
    /\ UNCHANGED cacheVars
    /\ UNCHANGED notPool

\* <PooledParquetFileReader as Drop>::drop
Drop(t) ==
    /\ thr[t].pc = "leased"
    /\ queue' = IF upgrade(pool_alive) THEN queue_after_push(queue, thr[t].lease)
                ELSE queue
    /\ thr' = [thr EXCEPT ![t].pc = "idle", ![t].lease = 0,
                          ![t].ret = IF upgrade(pool_alive) THEN "pushed" ELSE "discarded"]
    /\ got' = [got EXCEPT ![t] = NothingGot]
    /\ UNCHANGED <<pool_alive, created, impl, metadata, inner_calls>>
    /\ UNCHANGED notPool

\* The pool is dropped, and its idle readers with it; no call on it is running.
DropPool ==
    /\ pool_alive
    /\ \A t \in Threads : thr[t].pc \in {"idle", "leased"}
    /\ pool_alive' = FALSE
    /\ queue' = <<>>
    /\ UNCHANGED <<created, thr>>
    /\ UNCHANGED cacheVars
    /\ UNCHANGED notPool

PoolNext ==
    \/ \E t \in Threads : Pop(t)
    \/ \E t \in Threads : InitOk(t)
    \/ \E t \in Threads : InitErr(t)
    \/ \E t \in Threads : Wrap(t)
    \/ \E t \in Threads : Drop(t)
    \/ DropPool

PoolSpec == PoolSpecInit /\ [][PoolNext]_vars

(***************************************************************************)
(* Properties of the pool.                                                 *)
(***************************************************************************)
\* The places a reader is in: leases, readers being wrapped, queue slots
Holders(r) == {t \in Threads : thr[t].lease = r}
InFlight(r) == {t \in Threads : thr[t].inner = r}
QueueSlots(r) == {i \in DOMAIN queue : queue[i] = r}

\* C9: a reader is held by at most one lease at a time, and a reader in the
\* idle queue is held by no lease (nor queued twice, nor being wrapped).
C9_ExclusiveLease ==
    \A r \in 1..created :
        /\ Cardinality(Holders(r)) <= 1
        /\ QueueSlots(r) # {} => Holders(r) = {}
        /\ Cardinality(Holders(r)) + Cardinality(InFlight(r))
              + Cardinality(QueueSlots(r)) <= 1

\* Two leases live at once, one of them on a reader that came back from the
\* queue.
C9_Witness ==
    \E t1, t2 \in Threads :
        /\ t1 # t2
        /\ thr[t1].pc = "leased" /\ thr[t2].pc = "leased"
        /\ thr[t1].calls = 0

\* C10: try_get_reader on a non-empty queue takes the idle reader at its head
\* without calling the factory; on an empty queue it calls the factory exactly
\* once; when the factory fails the error is returned and the queue is as it
\* was.
C10_TryGetReader ==
    [][\A t \in Threads :
         /\ (thr[t].pc = "idle" /\ thr'[t].pc # "idle" /\ queue # <<>>) =>
                /\ thr'[t].pc = "wrap"
                /\ thr'[t].inner = Head(queue)
                /\ queue' = Tail(queue)
                /\ thr'[t].calls = 0
                /\ created' = created
         /\ (thr[t].pc = "idle" /\ thr'[t].pc # "idle" /\ queue = <<>>) =>
                /\ thr'[t].pc = "init"
                /\ thr'[t].calls = 0
         /\ (thr[t].pc = "init" /\ thr'[t].pc # "init") =>
                /\ thr'[t].calls = 1
                /\ queue' = queue
                /\ \/ thr'[t].pc = "wrap" /\ thr'[t].inner = created'
                      /\ created' = created + 1
                   \/ thr'[t].pc = "idle" /\ thr'[t].ret = "err"
                      /\ created' = created
         /\ (thr[t].pc = "wrap" /\ thr'[t].pc # "wrap") =>
                /\ thr'[t].pc = "leased"
                /\ thr'[t].ret = "ok"
                /\ thr'[t].lease = thr[t].inner
                /\ thr'[t].calls = thr[t].calls
      ]_vars

\* One call got an idle reader, one got a fresh reader from the factory, and
\* one returned the factory's error.
C10_Witness ==
    \E t1, t2, t3 \in Threads :
        /\ thr[t1].pc = "leased" /\ thr[t1].calls = 0
        /\ thr[t2].pc = "leased" /\ thr[t2].calls = 1
        /\ thr[t3].pc = "idle" /\ thr[t3].ret = "err" /\ thr[t3].calls = 1

\* C11: dropping a lease pushes its reader back into the queue exactly when
\* the pool still exists; once the pool is dropped it stays dropped and holds
\* no reader, whatever leases are still out and whenever they are dropped.
C11_ReleaseIffPoolExists ==
    [][/\ \A t \in Threads : (thr[t].pc = "leased" /\ thr'[t].pc = "idle") =>
              /\ pool_alive => queue' = Append(queue, thr[t].lease)
              /\ ~pool_alive => queue' = queue
       /\ ~pool_alive => (~pool_alive' /\ queue' = <<>>)
      ]_vars

\* The pool was dropped while a lease was out, and the lease was dropped
\* after it: its reader is in no queue and no lease.
C11_Witness ==
    /\ ~pool_alive
    /\ queue = <<>>
    /\ \E t \in Threads : thr[t].pc = "idle" /\ thr[t].ret = "discarded"

\* The readers a pool accounts for: idle in the queue, or taken out of it by
\* a lease or by a call that is about to return one
Accounted ==
    Len(queue) + Cardinality({t \in Threads : thr[t].lease # 0 \/ thr[t].inner # 0})

\* C12: while the pool exists, the readers idle in its queue plus the readers
\* leased out are as many as the successful factory calls, and that number
\* never decreases.
C12_NeverShrinks ==
    [][pool_alive' =>
          /\ Len(queue') + Cardinality({t \in Threads :
                    thr'[t].lease # 0 \/ thr'[t].inner # 0}) = created'
          /\ created' >= created
          /\ Len(queue') + Cardinality({t \in Threads :
                    thr'[t].lease # 0 \/ thr'[t].inner # 0}) >= Accounted
      ]_vars

\* Every reader the factory can make exists, one idle again after a lease and
\* one leased out.
C12_Witness ==
    /\ pool_alive
    /\ created = MaxReaders
    /\ queue # <<>>
    /\ \E t \in Threads : thr[t].pc = "leased"
    /\ \E t \in Threads : thr[t].pc = "idle" /\ thr[t].ret = "pushed"

(***************************************************************************)
(* The metadata cache: the tasks of the pool, which also ask the reader    *)
(* they hold for its metadata.                                             *)
(***************************************************************************)
CacheSpecInit ==
    /\ pool_alive = TRUE
    /\ queue = <<>>
    /\ created = 0
    /\ thr = [t \in Threads |-> IdleThread]
    /\ impl \in Impls
    /\ metadata = [r \in Readers |-> None(NoMetadata)]
    /\ inner_calls = [r \in Readers |-> 0]
    /\ got = [t \in Threads |-> NothingGot]
    /\ StreamIdle
    /\ ServiceIdle
    /\ LoadIdle
    /\ SessionIdle
    /\ BuildIdle
    /\ TxIdle
    /\ table = PoolTable
    /\ indexes = [f \in FileIds |-> UnsetIndex]
    /\ startup = "none"
    /\ scan = NoScan
    /\ whereis = NoWhereIs

\* AsyncFileReader::get_metadata on the lease of task t
GetMetadata(t, footer_ok, page_index_ok) ==
    /\ thr[t].pc = "leased"
    /\ LET r == thr[t].lease
           res == IF impl = "caching_parquet_reader"
                  THEN get_metadata_async(metadata[r], r, inner_calls[r], t,
                                          footer_ok, page_index_ok)
                  ELSE get_metadata_inner(metadata[r], r, inner_calls[r], t, footer_ok)
       IN /\ res.inner_calls <= MaxInnerCalls
          /\ metadata' = [metadata EXCEPT ![r] = res.metadata]
          /\ inner_calls' = [inner_calls EXCEPT ![r] = res.inner_calls]
          /\ got' = [got EXCEPT ![t] = res.got]
    /\ UNCHANGED <<pool_alive, queue, created, thr, impl>>
    /\ UNCHANGED notPool

\* ParquetFileReader::load_metadata(options) on the lease of task t
LoadMetadata(t, page_index, ok) ==
    /\ impl = "parquet"
    /\ thr[t].pc = "leased"
    /\ LET r == thr[t].lease
           res == load_metadata(metadata[r], r, inner_calls[r], t, page_index, ok)
       IN /\ res.inner_calls <= MaxInnerCalls
          /\ metadata' = [metadata EXCEPT ![r] = res.metadata]
          /\ inner_calls' = [inner_calls EXCEPT ![r] = res.inner_calls]
          /\ got' = [got EXCEPT ![t] = res.got]
    /\ UNCHANGED <<pool_alive, queue, created, thr, impl>>
    /\ UNCHANGED notPool

\* The pool stays and its factory does not fail while the caches are watched.
CacheNext ==
    \/ \E t \in Threads : Pop(t)
    \/ \E t \in Threads : InitOk(t)
    \/ \E t \in Threads : Wrap(t)
    \/ \E t \in Threads : Drop(t)
    \/ \E t \in Threads, footer_ok, page_index_ok \in BOOLEAN :
          GetMetadata(t, footer_ok, page_index_ok)
    \/ \E t \in Threads, page_index, ok \in BOOLEAN : LoadMetadata(t, page_index, ok)

CacheSpec == CacheSpecInit /\ [][CacheNext]_vars

\* C13: the cache of a caching_parquet_reader.rs reader is written at most
\* once, by a get_metadata that read the footer and loaded the page index;
\* from then on every get_metadata on that reader, whoever leases it, returns
\* the cached metadata and asks nothing of the inner reader.
C13_CacheWrittenOnce ==
    [][impl = "caching_parquet_reader" =>
        \A r \in Readers :
            /\ metadata[r].some =>
                /\ metadata'[r] = metadata[r]
                /\ inner_calls'[r] = inner_calls[r]
                /\ \A t \in Threads :
                      (thr[t].lease = r /\ thr'[t].lease = r /\ got'[t] # got[t]) =>
                          got'[t] = [res |-> "ok", from |-> "cache", md |-> metadata[r].v]
            /\ (~metadata[r].some /\ metadata'[r].some) =>
                /\ inner_calls'[r] = inner_calls[r] + 1
                /\ metadata'[r].v.page_index
                /\ \E t \in Threads :
                      /\ thr[t].lease = r
                      /\ got'[t] = [res |-> "ok", from |-> "inner", md |-> metadata'[r].v]
      ]_vars

\* C35: a get_metadata of a caching_parquet_reader.rs reader that returns
\* an error, the footer read or the page index load having failed, found
\* the cache empty and leaves it empty; and a get_metadata that finds the
\* cache empty asks the inner reader for the footer, again if it was asked
\* before.
C35_ErrorNotCached ==
    [][impl = "caching_parquet_reader" =>
        \A r \in Readers : \A t \in Threads :
            (thr[t].lease = r /\ thr'[t].lease = r) =>
                /\ (/\ got'[t].res = "err"
                    /\ got'[t] # got[t] \/ inner_calls'[r] # inner_calls[r])
                       => ~metadata[r].some /\ ~metadata'[r].some
                /\ (~metadata[r].some /\ got'[t] # got[t])
                       => inner_calls'[r] = inner_calls[r] + 1
      ]_vars
\* The first get_metadata on a reader failed and cached nothing; the second
\* read the footer again and filled the cache.
C35_Witness ==
    /\ impl = "caching_parquet_reader"
    /\ \E r \in Readers :
           /\ inner_calls[r] = 2
           /\ metadata[r].some
           /\ metadata[r].v.id = 2

\* A task filled the cache of a reader and gave the reader back; another
\* task leased that reader from the queue and got the same metadata from the
\* cache.
C13_Witness ==
    /\ impl = "caching_parquet_reader"
    /\ \E t1, t2 \in Threads :
        /\ t1 # t2
        /\ thr[t1].pc = "idle" /\ thr[t1].ret = "pushed"
        /\ thr[t2].pc = "leased" /\ thr[t2].calls = 0
        /\ got[t2].res = "ok" /\ got[t2].from = "cache"
        /\ got[t2].md = metadata[thr[t2].lease].v
        /\ got[t2].md.by = t1
        /\ inner_calls[thr[t2].lease] = 1

\* C14: what a cache holds is the enriched metadata, with the column index
\* and the offset index, whatever the first caller asked for, and so is what
\* a later call is served from the cache.
C14_CacheIsEnriched ==
    /\ \A r \in Readers : metadata[r].some => metadata[r].v.page_index
    /\ \A t \in Threads :
          (got[t].res = "ok" /\ got[t].from = "cache") => got[t].md.page_index

(***************************************************************************)
(* The flattening channel: producers, the caller's reads, the caller's     *)
(* drop of the stream.                                                     *)
(***************************************************************************)
\* The files the first stage selected have a reader stream and a task each;
\* a file it pruned has neither.
StreamSpecInit ==
    /\ streams \in [Producers -> 0..MaxBatches]
    /\ \E selected \in SUBSET Producers :
           /\ \A p \in Producers \ selected : streams[p] = 0
           /\ prod = [p \in Producers |->
                        [pc |-> IF p \in selected THEN "next" ELSE "done", read |-> 0]]
    /\ channel = <<>>
    /\ rx = "open"
    /\ output = <<>>
    /\ ServiceIdle
    /\ LoadIdle
    /\ SessionIdle
    /\ BuildIdle
    /\ TxIdle
    /\ PoolInit
    /\ table = PoolTable
    /\ indexes = [f \in FileIds |-> UnsetIndex]
    /\ startup = "none"
    /\ scan = NoScan
    /\ whereis = NoWhereIs

\* `while let Some(batch_result) = reader_stream.next().await`: the next
\* batch of the file, or the end of the loop
NextBatch(p) ==
    /\ prod[p].pc = "next"
    /\ prod' = [prod EXCEPT ![p] =
                  IF prod[p].read < streams[p]
                  THEN [pc |-> "send", read |-> prod[p].read + 1]
                  ELSE [pc |-> "done", read |-> prod[p].read]]
    /\ UNCHANGED <<streams, channel, rx, output>>
    /\ UNCHANGED notStream

\* `tx.send(batch_result).await`: an error once the receiver is gone, else
\* the batch is queued as soon as the channel has room
Send(p) ==
    /\ prod[p].pc = "send"
    /\ rx = "open" => ~channel_full(channel)
    /\ channel' = IF rx = "open"
                  THEN channel_after_send(channel, <<p, prod[p].read>>)
                  ELSE channel
    /\ prod' = [prod EXCEPT ![p].pc = after_send(rx # "open")]
    /\ UNCHANGED <<streams, rx, output>>
    /\ UNCHANGED notStream

\* The caller polls the ReceiverStream and gets the oldest message.
Recv ==
    /\ rx = "open"
    /\ channel # <<>>
    /\ output' = Append(output, Head(channel))
    /\ channel' = Tail(channel)
    /\ UNCHANGED <<streams, prod, rx>>
    /\ UNCHANGED notStream

\* The caller drops the ReceiverStream: the channel is closed and what it
\* holds is dropped.
DropStream ==
    /\ rx = "open"
    /\ rx' = "dropped"
    /\ channel' = <<>>
    /\ UNCHANGED <<streams, prod, output>>
    /\ UNCHANGED notStream

\* The caller polls the ReceiverStream when the channel is empty and every
\* sender is gone: the stream yields its end.
EndStream ==
    /\ rx = "open"
    /\ channel = <<>>
    /\ senders_dropped(prod)
    /\ rx' = "ended"
    /\ UNCHANGED <<streams, prod, channel, output>>
    /\ UNCHANGED notStream

StreamNext ==
    \/ \E p \in Producers : NextBatch(p)
    \/ \E p \in Producers : Send(p)
    \/ Recv
    \/ DropStream
    \/ EndStream

StreamSpec == StreamSpecInit /\ [][StreamNext]_vars

\* tokio runs every spawned producer task: a producer that can take a step
\* takes it.
StreamFairSpec ==
    /\ StreamSpecInit
    /\ [][StreamNext]_vars
    /\ \A p \in Producers : WF_vars(NextBatch(p)) /\ WF_vars(Send(p))

\* The batches of producer p in a sequence of batches, in the order they
\* stand there.
RECURSIVE BatchesOf(_, _)
BatchesOf(p, batches) ==
    IF batches = <<>> THEN <<>>
    ELSE IF Head(batches)[1] = p
         THEN <<Head(batches)[2]>> \o BatchesOf(p, Tail(batches))
         ELSE BatchesOf(p, Tail(batches))

\* C15: whatever the interleaving of the producers, the batches of one file
\* reach the caller in the file's order: what the caller got of a file,
\* followed by what the channel still holds of it, is the file's batches
\* 1, 2, 3, ... with none skipped and none out of place.
C15_FileOrderPreserved ==
    \A p \in Producers :
        LET seen == BatchesOf(p, output) \o BatchesOf(p, channel)
        IN  \A i \in DOMAIN seen : seen[i] = i

\* The caller got a batch of another file between two batches of one file.
C15_Witness ==
    \E i, j, k \in DOMAIN output :
        /\ i < j /\ j < k
        /\ output[i][1] = output[k][1]
        /\ output[i][1] # output[j][1]
        /\ output[i][2] < output[k][2]

AllProducersDone == \A p \in Producers : prod[p].pc = "done"

\* C16: once the caller has dropped the stream nothing more is delivered, a
\* producer that sends leaves its loop instead of reading on, and every
\* producer ends: none stays blocked on the closed channel.
C16_ProducersExitOnDrop ==
    /\ [][rx = "dropped" =>
            /\ output' = output
            /\ channel' = <<>>
            /\ \A p \in Producers :
                   (prod[p].pc = "send" /\ prod'[p] # prod[p])
                       => prod'[p] = [pc |-> "done", read |-> prod[p].read]
         ]_vars
    /\ (rx = "dropped") ~> AllProducersDone

\* The stream is gone and every producer has ended, one of them with
\* batches of its file left unread.
C16_Witness ==
    /\ rx = "dropped"
    /\ AllProducersDone
    /\ \E p \in Producers : prod[p].read >= 1 /\ prod[p].read < streams[p]

\* C17: the channel never holds more than num_cpus * 2 batches, and a
\* producer whose send finds the channel full makes no step: it reads no
\* further batch of its file before the channel has lost a batch.
C17_BoundedChannel ==
    [][/\ Len(channel') <= num_cpus * 2
       /\ \A p \in Producers :
              (prod[p].pc = "send" /\ rx = "open" /\ Len(channel) >= num_cpus * 2)
                  => prod'[p] = prod[p]
      ]_vars

\* The channel is full and a producer waits with a batch, more batches of
\* its file still unread.
C17_Witness ==
    /\ rx = "open"
    /\ Len(channel) = num_cpus * 2
    /\ \E p \in Producers : prod[p].pc = "send" /\ prod[p].read < streams[p]

\* The caller keeps the stream and polls it whenever it has something to
\* yield; tokio runs every producer task.
PolledNext ==
    \/ \E p \in Producers : NextBatch(p)
    \/ \E p \in Producers : Send(p)
    \/ Recv
    \/ EndStream
StreamPolledSpec ==
    /\ StreamSpecInit
    /\ [][PolledNext]_vars
    /\ \A p \in Producers : WF_vars(NextBatch(p)) /\ WF_vars(Send(p))
    /\ WF_vars(Recv)
    /\ WF_vars(EndStream)

\* C33: a stream that is polled on ends; it ends only when every producer
\* has left its loop and the channel is drained, with every batch of every
\* file delivered, and then a poll finds the end (no sender is left to wait
\* for); with no file selected the first poll finds it and no item was
\* delivered.
C33_StreamEnds ==
    /\ <>(rx = "ended")
    /\ [](rx = "ended" =>
            /\ AllProducersDone
            /\ channel = <<>>
            /\ \A p \in Producers : Len(BatchesOf(p, output)) = streams[p])
    /\ []((rx = "open" /\ AllProducersDone /\ channel = <<>>) => ENABLED EndStream)
\* The stream ended after it delivered the batches of two files.
C33_Witness ==
    /\ rx = "ended"
    /\ \A p \in Producers : streams[p] >= 1 /\ Len(BatchesOf(p, output)) = streams[p]

\* The table at rest
ScanIdle ==
    /\ table = PoolTable
    /\ indexes = [f \in FileIds |-> UnsetIndex]
    /\ startup = "none"
    /\ scan = NoScan
    /\ whereis = NoWhereIs

(***************************************************************************)
(* Scans and the readers they lease.  Each file of the table has its own   *)
(* pool: here queue, created and thr are per file, thr[f] being the lease  *)
(* the scan in flight has on file f, and rx tells where the scan is:       *)
(* "none", "init" (readers being acquired), "open", and how it ended.      *)
(***************************************************************************)
LeaseSpecInit ==
    /\ pool_alive = TRUE
    /\ queue = [f \in Producers |-> <<>>]
    /\ created = [f \in Producers |-> 0]
    /\ thr = [f \in Producers |-> IdleThread]
    /\ impl = "caching_parquet_reader"
    /\ metadata = [r \in Readers |-> None(NoMetadata)]
    /\ inner_calls = [r \in Readers |-> 0]
    /\ got = [t \in Threads |-> NothingGot]
    /\ streams = [p \in Producers |-> 0]
    /\ prod = [p \in Producers |-> [pc |-> "done", read |-> 0]]
    /\ channel = <<>>
    /\ rx = "none"
    /\ output = <<>>
    /\ ScanIdle
    /\ ServiceIdle
    /\ LoadIdle
    /\ SessionIdle
    /\ BuildIdle
    /\ TxIdle

\* filtered_record_batch_stream_builder is called: the files the Elias-Fano
\* stage selects each ask their pool for a reader.
StartScan(batches) ==
    /\ rx = "none"
    /\ \E selected \in SUBSET Producers :
           /\ \A f \in Producers \ selected : batches[f] = 0
           /\ thr' = [f \in Producers |->
                        IF f \in selected THEN [IdleThread EXCEPT !.pc = "acquire"]
                        ELSE IdleThread]
    /\ streams' = batches
    /\ prod' = [p \in Producers |-> [pc |-> "done", read |-> 0]]
    /\ channel' = <<>>
    /\ output' = <<>>
    /\ rx' = "init"
    /\ UNCHANGED <<pool_alive, queue, created>>
    /\ UNCHANGED cacheVars
    /\ UNCHANGED <<scanVars, serviceVars, loadVars, sessionVars, buildVars, txVars>>

\* `file_reader.reader().await?`: try_get_reader of the pool of file f pops
\* an idle reader, or makes one, which can fail
Acquire(f, init_ok) ==
    /\ rx = "init"
    /\ thr[f].pc = "acquire"
    /\ IF try_get_reader_match(queue[f]) = "wrap"
       THEN /\ thr' = [thr EXCEPT ![f].pc = "leased", ![f].lease = popped_reader(queue[f])]
            /\ queue' = [queue EXCEPT ![f] = queue_after_pop(queue[f])]
            /\ created' = created
       ELSE IF init_ok /\ created[f] < MaxReaders
       THEN /\ thr' = [thr EXCEPT ![f].pc = "leased", ![f].lease = created[f] + 1]
            /\ created' = [created EXCEPT ![f] = created[f] + 1]
            /\ queue' = queue
       ELSE /\ thr' = [thr EXCEPT ![f].pc = "failed"]
            /\ UNCHANGED <<queue, created>>
    /\ UNCHANGED pool_alive
    /\ UNCHANGED cacheVars
    /\ UNCHANGED <<scanVars, streamVars, serviceVars, loadVars, sessionVars, buildVars,
                   txVars>>

\* Both join_all have returned.  An error of a reader() or of the setup of a
\* file's stream is returned with `?`, and what was collected is dropped;
\* else one task per reader stream is spawned and the stream is returned.
Spawn(build_ok) ==
    /\ rx = "init"
    /\ \A f \in Producers : thr[f].pc # "acquire"
    /\ ~build_ok => \E f \in Producers : thr[f].pc = "leased"
    /\ IF build_ok /\ \A f \in Producers : thr[f].pc # "failed"
       THEN /\ thr' = [f \in Producers |->
                         IF thr[f].pc = "leased" THEN [thr[f] EXCEPT !.pc = "task"]
                         ELSE thr[f]]
            /\ prod' = [p \in Producers |->
                          [pc |-> IF thr[p].pc = "leased" THEN "next" ELSE "done",
                           read |-> 0]]
            /\ rx' = "open"
       ELSE /\ thr' = [f \in Producers |->
                         IF thr[f].pc = "failed" THEN IdleThread ELSE thr[f]]
            /\ prod' = prod
            /\ rx' = "failed"
    /\ UNCHANGED <<streams, channel, output>>
    /\ UNCHANGED <<pool_alive, queue, created>>
    /\ UNCHANGED cacheVars
    /\ UNCHANGED <<scanVars, serviceVars, loadVars, sessionVars, buildVars, txVars>>

\* Readers that outlive a failed initialisation.
reader_kept_on_error(lease, producer, scan_state) ==
    lease = "task" /\ producer = "done"
\* When the reader of a file is dropped: with its reader stream when the
\* task that owns it has left its loop, or with the results of a failed
\* initialisation
reader_dropped(lease, producer, scan_state) ==
    \/ lease = "task" /\ producer = "done"
    \/ lease = "leased" /\ scan_state = "failed"

\* The reader of file f is dropped, and
\* <PooledParquetFileReader as Drop>::drop pushes it back.
DropReader(f) ==
    /\ reader_dropped(thr[f].pc, prod[f].pc, rx)
    /\ queue' = [queue EXCEPT ![f] =
                   IF upgrade(pool_alive) THEN queue_after_push(queue[f], thr[f].lease)
                   ELSE queue[f]]
    /\ thr' = [thr EXCEPT ![f] = IdleThread]
    /\ UNCHANGED <<pool_alive, created>>
    /\ UNCHANGED cacheVars
    /\ UNCHANGED <<scanVars, streamVars, serviceVars, loadVars, sessionVars, buildVars,
                   txVars>>

\* Nothing of the scan is left.
FinishScan ==
    /\ rx \in {"ended", "dropped", "failed"}
    /\ \A f \in Producers : thr[f].pc = "idle"
    /\ rx' = "none"
    /\ UNCHANGED <<streams, prod, channel, output>>
    /\ UNCHANGED notStream

LeaseNext ==
    \/ \E batches \in [Producers -> 0..MaxBatches] : StartScan(batches)
    \/ \E f \in Producers, init_ok \in BOOLEAN : Acquire(f, init_ok)
    \/ \E build_ok \in BOOLEAN : Spawn(build_ok)
    \/ \E p \in Producers : NextBatch(p)
    \/ \E p \in Producers : Send(p)
    \/ Recv
    \/ DropStream
    \/ EndStream
    \/ \E f \in Producers : DropReader(f)
    \/ FinishScan

\* tokio runs the tasks of the scan and the calls it awaits; the caller
\* polls or drops the stream as it likes.
LeaseSpec ==
    /\ LeaseSpecInit
    /\ [][LeaseNext]_vars
    /\ \A p \in Producers :
           WF_vars(NextBatch(p)) /\ WF_vars(Send(p)) /\ WF_vars(DropReader(p))

\* Every reader of every pool is idle in the queue of its pool
AllReadersIdle ==
    \A f \in Producers : thr[f].lease = 0 /\ Len(queue[f]) = created[f]

\* C32: however a scan ends (its stream read to the end, its
\* initialisation failing, its stream dropped), the readers it leased come
\* back to the queues of their pools, and whenever no scan is in flight the
\* idle readers of each pool are all the readers made for it.
C32_NoReaderLeak ==
    /\ [](rx = "none" => AllReadersIdle)
    /\ (rx \in {"ended", "dropped", "failed"}) ~> AllReadersIdle
\* The stream was dropped with batches unread, and the readers of both
\* files are back in their pools.
C32_Witness ==
    /\ rx = "dropped"
    /\ AllReadersIdle
    /\ \A f \in Producers : created[f] >= 1
    /\ \E p \in Producers : prod[p].read < streams[p]

(***************************************************************************)
(* The RPC handlers (grpc_server/mod.rs) over the query layer.             *)
(***************************************************************************)
ServiceSpecInit ==
    /\ service \in [graph : BOOLEAN, node : NodeTables, frontier : Frontiers]
    /\ request = <<>>
    /\ outcomes = <<>>
    /\ response = <<>>
    /\ scanned = FALSE
    /\ handler = "idle"
    /\ ScanIdle
    /\ PoolInit
    /\ StreamIdle
    /\ LoadIdle
    /\ SessionIdle
    /\ BuildIdle
    /\ TxIdle

Pending == [kind |-> "pending", v |-> <<>>, status |-> NoStatus, error |-> <<>>]

\* A caller of the library calls ProvenanceService::whereis of queries.rs,
\* once more on the same service.
QueryWhereIs(swhid, fault) ==
    /\ handler \in {"idle", "returned"}
    /\ Len(request) < MaxRequest
    /\ request' = Append(request, swhid)
    /\ outcomes' = Append(outcomes,
                       service_whereis(service.graph, service.node, service.frontier, swhid, fault))
    /\ scanned' = node_table_scanned(service.graph, service.node, <<swhid>>, fault)
    /\ handler' = "returned"
    /\ UNCHANGED <<service, response>>
    /\ UNCHANGED notService

\* A caller of the library calls ProvenanceService::node_id of queries.rs
\* with a whole request.
NodeId(swhids, fault) ==
    /\ handler = "idle"
    /\ request' = swhids
    /\ outcomes' = <<service_node_id(service.graph, service.node, swhids, fault)>>
    /\ scanned' = node_table_scanned(service.graph, service.node, swhids, fault)
    /\ handler' = "node_ids"
    /\ UNCHANGED <<service, response>>
    /\ UNCHANGED notService

\* where_is_one: one whereis call and the reply made of what it returned
WhereIsOne(swhid, fault) ==
    /\ handler = "idle"
    /\ LET outcome == inner_whereis(service.graph, service.node, swhid, fault)
       IN /\ request' = <<swhid>>
          /\ outcomes' = <<outcome>>
          /\ IF outcome.kind = "panic"
             THEN /\ response' = <<>>
                  /\ handler' = "aborted"
             ELSE /\ response' = <<[input |-> 1, reply |-> rpc_reply(outcome)]>>
                  /\ handler' = "replied"
    /\ scanned' = node_table_scanned(service.graph, service.node, <<swhid>>, fault)
    /\ UNCHANGED service
    /\ UNCHANGED notService

\* where_are_one: one future per SWHID, collected into a FuturesUnordered
\* that is returned as the response stream
WhereAreOne(swhids) ==
    /\ handler = "idle"
    /\ request' = swhids
    /\ outcomes' = [i \in DOMAIN swhids |-> Pending]
    /\ response' = <<>>
    /\ handler' = "streaming"
    /\ UNCHANGED <<service, scanned>>
    /\ UNCHANGED notService

\* tonic polls the stream and the future of input i completes: its reply
\* is the next item of the stream.  The futures run inside the poll, so a
\* panic of one unwinds through the stream and nothing more is delivered.
Complete(i, fault) ==
    /\ handler = "streaming"
    /\ i \in DOMAIN request
    /\ outcomes[i] = Pending
    /\ LET outcome == inner_whereis(service.graph, service.node, request[i], fault)
       IN /\ outcomes' = [outcomes EXCEPT ![i] = outcome]
          /\ IF outcome.kind = "panic"
             THEN /\ response' = response
                  /\ handler' = "panicked"
             ELSE /\ response' = Append(response, [input |-> i, reply |-> rpc_reply(outcome)])
                  /\ handler' = handler
    /\ scanned' = node_table_scanned(service.graph, service.node, <<request[i]>>, fault)
    /\ UNCHANGED <<service, request>>
    /\ UNCHANGED notService

\* Every future has completed: the stream ends.
EndOfStream ==
    /\ handler = "streaming"
    /\ \A i \in DOMAIN request : outcomes[i] # Pending
    /\ handler' = "done"
    /\ UNCHANGED <<service, request, outcomes, response, scanned>>
    /\ UNCHANGED notService

ServiceNext ==
    \/ \E swhid \in Requested, fault \in Faults : QueryWhereIs(swhid, fault)
    \/ \E swhids \in Requests, fault \in Faults : NodeId(swhids, fault)
    \/ \E swhid \in Requested, fault \in Faults : WhereIsOne(swhid, fault)
    \/ \E swhids \in Requests : WhereAreOne(swhids)
    \/ \E i \in 1..MaxRequest, fault \in Faults : Complete(i, fault)
    \/ EndOfStream

ServiceSpec == ServiceSpecInit /\ [][ServiceNext]_vars

(***************************************************************************)
(* Properties of the service.                                              *)
(***************************************************************************)
\* The node of the dataset a request string names, if any
NodeOf(swhid) ==
    {n \in NodeIds : from_str(swhid).some /\ GraphNodes[n + 1] = from_str(swhid).v}
\* The whereis call of input i has ended, and not on an injected failure
Ended(i) == i \in DOMAIN outcomes /\ outcomes[i].kind \in {"ok", "status", "panic"}
\* The SWHIDs of the revisions that anchor node n directly, and through a
\* frontier directory
DirectAnchors(n) ==
    {to_string(GraphNodes[cr[2] + 1]) : cr \in {cr \in c_in_r(service.frontier) : cr[1] = n}}
TwoHopAnchors(n) ==
    {to_string(GraphNodes[dr[2] + 1]) :
        dr \in {dr \in d_in_r(service.frontier) :
                  <<n, dr[1]>> \in c_in_d(service.frontier)}}

\* C21: whereis of a known SWHID with no row in c_in_r but a row in c_in_d
\* whose directory has a row in d_in_r answers with the revrel of such a
\* d_in_r row as anchor; in the dataset, content 2 under frontier directory
\* 1 is anchored at revision 0.
C21_TwoHopAnchor ==
    \A i \in DOMAIN request : \A n \in NodeOf(request[i]) :
        (handler = "returned" /\ Ended(i) /\ DirectAnchors(n) = {} /\ TwoHopAnchors(n) # {}) =>
            /\ outcomes[i].kind = "ok"
            /\ outcomes[i].v.anchor.some
            /\ outcomes[i].v.anchor.v \in TwoHopAnchors(n)

\* C22: whereis of a known SWHID that no revision anchors, directly or
\* through a frontier directory, succeeds with the SWHID of the request and
\* no anchor.
C22_NoAnchorIsNotAnError ==
    \A i \in DOMAIN request : \A n \in NodeOf(request[i]) :
        (handler = "returned" /\ Ended(i) /\ DirectAnchors(n) = {} /\ TwoHopAnchors(n) = {}) =>
            /\ outcomes[i].kind = "ok"
            /\ outcomes[i].v.swhid = request[i]
            /\ ~outcomes[i].v.anchor.some

\* C23: a WhereAreOne call hands back exactly one outcome, a result or an
\* error status, for each SWHID of the request, whatever happened to the
\* lookups of the other SWHIDs.
C23_OneOutcomePerInput ==
    handler \in {"done", "panicked"} =>
        \A i \in DOMAIN request :
            Cardinality({k \in DOMAIN response : response[k].input = i}) = 1

\* A request string that is a well-formed SWHID, by its parts
WellFormed(s) == Len(s) = 4 /\ s[1] = "swh" /\ s[2] = 1 /\ s[3] \in NodeTypes
\* The call ended on a failure of the storage or of the graph backend
BackendFailed(outcome) ==
    /\ outcome.kind = "error"
    /\ outcome.error[Len(outcome.error)] \in
           {IoError, ParquetError, Line("graph backend failure", {})}
\* node_id was called in node-table mode with well-formed SWHIDs and the
\* scan of the node table, if any, met no I/O failure
NodeTableCall ==
    /\ handler = "node_ids"
    /\ ~service.graph
    /\ \A i \in DOMAIN request : WellFormed(request[i])
    /\ ~BackendFailed(outcomes[1])
\* The input SWHIDs with no row of the node table of their type and hash
Missing ==
    {request[i] : i \in {i \in DOMAIN request :
        \A r \in service.node : <<r.type, r.sha1_git>> # <<request[i][3], request[i][4]>>}}
IsStatus(outcome, code) == outcome.kind = "status" /\ outcome.status.code = code

\* C24: in node-table mode, node_id of well-formed, pairwise distinct
\* SWHIDs answers NotFound exactly when some input has no row of its
\* (type, sha1_git) in the node table, and the message lists exactly the
\* inputs that have none.
C24_NotFoundListsMissing ==
    (NodeTableCall /\ Cardinality(Range(request)) = Len(request)) =>
        /\ IsStatus(outcomes[1], "NotFound") <=> Missing # {}
        /\ IsStatus(outcomes[1], "NotFound") =>
               outcomes[1].status.message.swhids = Missing

\* The positions of the request whose string is not a well-formed SWHID,
\* and the first of them
MalformedAt == {i \in DOMAIN request : ~WellFormed(request[i])}
FirstMalformed == CHOOSE m \in MalformedAt : \A j \in MalformedAt : m <= j
InvalidArgumentFor(swhid) ==
    /\ IsStatus(outcomes[1], "InvalidArgument")
    /\ outcomes[1].status.message.swhids = {swhid}

C26_DuplicatesUnimplemented ==
    NodeTableCall =>
        /\ IsStatus(outcomes[1], "Unimplemented")
               <=> (\E i, j \in DOMAIN request : i # j /\ request[i] = request[j])
        /\ IsStatus(outcomes[1], "Unimplemented") => ~scanned

\* The replies of the call being served that tell of an internal failure
InternalReplies ==
    {response[k].reply : k \in {k \in DOMAIN response :
        response[k].reply.status.code = "Internal"}}

\* C27: the reply to a lookup that failed internally has status Internal
\* and a message that holds no line of the logged cause, and two lookups
\* that failed on different causes get the same reply status.
C27_InternalCauseNotLeaked ==
    handler \in {"replied", "streaming", "done", "panicked"} =>
        /\ \A k \in DOMAIN response :
               outcomes[response[k].input].kind = "error"
                   => response[k].reply.status.code = "Internal"
        /\ \A reply \in InternalReplies :
               \A l \in DOMAIN reply.logged : reply.status.message # reply.logged[l]
        /\ \A r1, r2 \in InternalReplies : r1.status = r2.status

RowsOf(i) ==
    {r \in service.node : r.type = request[i][3] /\ r.sha1_git = request[i][4]}
ScannedRows == {r \in service.node : \E i \in DOMAIN request : r.sha1_git = request[i][4]}

\* C34: when node_id succeeds in node-table mode it returns one id per
\* input SWHID, the id of the only row of that SWHID, the inputs being
\* pairwise distinct; and when the scan returns a row that is of no input
\* or a second row of an input, the call fails and returns no id.
C34_OneIdPerInput ==
    NodeTableCall =>
        /\ outcomes[1].kind = "ok" =>
               /\ Len(outcomes[1].v) = Len(request)
               /\ Cardinality(Range(request)) = Len(request)
               /\ \A i \in DOMAIN request :
                      /\ Cardinality(RowsOf(i)) = 1
                      /\ \A r \in RowsOf(i) : r.id \in Range(outcomes[1].v)
               /\ \A id \in Range(outcomes[1].v) :
                      \E i \in DOMAIN request : \E r \in RowsOf(i) : r.id = id
        /\ (/\ scanned
            /\ \/ \E r \in ScannedRows : \A i \in DOMAIN request : r \notin RowsOf(i)
               \/ \E i \in DOMAIN request : Cardinality(RowsOf(i)) > 1)
               => outcomes[1].kind = "error"
\* node_id returned the ids of two SWHIDs of the node table.
C34_Witness ==
    /\ NodeTableCall
    /\ outcomes[1].kind = "ok"
    /\ Len(request) = 2
    /\ Len(outcomes[1].v) = 2

(***************************************************************************)
(* Loading a table and building the Elias-Fano index of one of its files   *)
(* (database/table.rs, database/reader.rs).                                *)
(***************************************************************************)
\* Files in a table directory.
MaxFiles == 3

\* The footer of a Parquet file: its schema descriptor and its key-value
\* metadata, which holds among others the creation date
Schemas == {"cnt:u64,revrel:u64,path:binary", "cnt:u64,revrel:u64"}
KeyValueMetadata == {"created 2024-10-01", "created 2024-10-02"}
ParquetFiles == [schema : Schemas, key_value_metadata : KeyValueMetadata]
Directories == UNION {[1..n -> ParquetFiles] : n \in 0..MaxFiles}

\* JoinSet::join_all hands the results back in the order the tasks
\* completed: any order of the n files
JoinOrders(n) == {o \in [1..n -> 1..n] : \A i, j \in 1..n : i # j => o[i] # o[j]}

\* A comparison of the whole footers.
same_file_metadata(a, b) == a = b
\* `last_file_metadata.schema_descr() == other_file_metadata.schema_descr()`
same_schema_descr(a, b) == a.schema = b.schema

TableError(error) ==
    [done |-> TRUE, ok |-> FALSE, error |-> error, schema |-> "", key_value_metadata |-> ""]
\* Table::new, from the footers in the order they were read: the last one
\* is popped and compared with every other; its schema and its key-value
\* metadata become the schema of the table.
table_new_of(file_metadata, read_failed) ==
    LET n == Len(file_metadata)
        last_file_metadata == file_metadata[n]
    IN IF read_failed THEN TableError("Could not get file metadata")
       ELSE IF n = 0 THEN TableError("No files in")
       ELSE IF \E i \in 1..(n - 1) :
                   ~same_schema_descr(last_file_metadata, file_metadata[i])
       THEN TableError("Schema differ")
       ELSE [done |-> TRUE, ok |-> TRUE, error |-> "",
             schema |-> last_file_metadata.schema,
             key_value_metadata |-> last_file_metadata.key_value_metadata]

LoadSpecInit ==
    /\ directory \in Directories
    /\ table_new = NotLoaded
    /\ column = <<>>
    /\ ef_built = NotBuilt
    /\ ScanIdle
    /\ PoolInit
    /\ StreamIdle
    /\ ServiceIdle
    /\ SessionIdle
    /\ BuildIdle
    /\ TxIdle

\* Table::new on the directory; reading a footer can fail when there is
\* one to read.
TableNew(order, read_failed) ==
    /\ ~table_new.done
    /\ order \in JoinOrders(Len(directory))
    /\ read_failed => directory # <<>>
    /\ table_new' = table_new_of([i \in DOMAIN directory |-> directory[order[i]]],
                                 read_failed)
    /\ UNCHANGED <<directory, column, ef_built>>
    /\ UNCHANGED notLoad

\* Values in one record batch of the key column.
MaxBatchLen == 3

\* The key column of a file as the reader streams it: record batches, none
\* of them empty, of values of the key domain
RecordBatches == UNION {[1..n -> KeyDomain] : n \in 1..MaxBatchLen}
Columns == UNION {[1..n -> RecordBatches] : n \in 0..MaxBatches}

\* Itertools::dedup: runs of equal consecutive values become one value
RECURSIVE dedup(_)
dedup(values) ==
    IF Len(values) <= 1 THEN values
    ELSE IF values[1] = values[2] THEN dedup(Tail(values))
    ELSE <<values[1]>> \o dedup(Tail(values))

\* A batch left in the order of the file.
not_sorted(values) == values
\* radix_sort_unstable: the same values, in ascending order
RECURSIVE radix_sort_unstable(_)
radix_sort_unstable(values) ==
    IF values = <<>> THEN <<>>
    ELSE LET i == CHOOSE i \in DOMAIN values : \A j \in DOMAIN values : values[i] <= values[j]
         IN <<values[i]>> \o
            radix_sort_unstable([k \in 1..(Len(values) - 1) |->
                                    IF k < i THEN values[k] ELSE values[k + 1]])

\* Itertools::kmerge: the next value is the smallest of the heads of the
\* sequences
RECURSIVE kmerge(_)
kmerge(seqs) ==
    LET left == {i \in DOMAIN seqs : seqs[i] # <<>>}
        i == CHOOSE i \in left : \A j \in left : Head(seqs[i]) <= Head(seqs[j])
    IN IF left = {} THEN <<>>
       ELSE <<Head(seqs[i])>> \o kmerge([seqs EXCEPT ![i] = Tail(seqs[i])])

\* EliasFanoBuilder::new(n, u), extend and build: the builder panics on a
\* value smaller than the one before it or larger than u
elias_fano(n, u, values) ==
    [panic |-> \/ Len(values) # n
               \/ \E i \in DOMAIN values : values[i] > u
               \/ \E i \in 1..(Len(values) - 1) : values[i] > values[i + 1],
     values |-> values]

\* The closure build_ef_index maps over the batches
batch_ef_seq(column_chunk) ==
    LET values == dedup(radix_sort_unstable(dedup(column_chunk)))
    IN elias_fano(Len(values), values[Len(values)], values)

\* build_ef_index: the sequences of the batches, merged and deduplicated
build_ef_index(batches) ==
    LET ef_sequences == [b \in DOMAIN batches |-> batch_ef_seq(batches[b])]
        values == dedup(kmerge([b \in DOMAIN batches |-> ef_sequences[b].values]))
        max_value == IF values = <<>> THEN 0 ELSE values[Len(values)]
        ef == elias_fano(Len(values), max_value, values)
    IN IF \E b \in DOMAIN batches : ef_sequences[b].panic
       THEN [done |-> TRUE, panic |-> TRUE, values |-> <<>>]
       ELSE [done |-> TRUE, panic |-> ef.panic, values |-> ef.values]

\* build_ef_index on a file of the loaded table, whose key column the
\* reader streams as the given batches
BuildEfIndex(batches) ==
    /\ table_new.ok
    /\ ~ef_built.done
    /\ column' = batches
    /\ ef_built' = build_ef_index(batches)
    /\ UNCHANGED <<directory, table_new>>
    /\ UNCHANGED notLoad

LoadNext ==
    \/ \E order \in UNION {JoinOrders(n) : n \in 0..MaxFiles}, read_failed \in BOOLEAN :
           TableNew(order, read_failed)
    \/ \E batches \in Columns : BuildEfIndex(batches)

LoadSpec == LoadSpecInit /\ [][LoadNext]_vars

(***************************************************************************)
(* Properties of loading.                                                  *)
(***************************************************************************)
SchemasAgree == \A i, j \in DOMAIN directory : directory[i].schema = directory[j].schema

\* C29: Table::new fails on a directory with no file and on one in which
\* two files have different schemas; it succeeds only when the schemas of
\* all files are equal, and when they are and every footer could be read
\* it succeeds whatever the key-value metadata of the files are.
C29_SchemasMustAgree ==
    table_new.done =>
        /\ directory = <<>> => ~table_new.ok
        /\ ~SchemasAgree => ~table_new.ok
        /\ table_new.ok => directory # <<>> /\ SchemasAgree
        /\ (/\ directory # <<>>
            /\ SchemasAgree
            /\ table_new.error # "Could not get file metadata") => table_new.ok
\* A table of files with one schema and different key-value metadata was
\* loaded.
C29_Witness ==
    /\ table_new.done
    /\ table_new.ok
    /\ \E i, j \in DOMAIN directory :
           directory[i].key_value_metadata # directory[j].key_value_metadata

\* The values of the key column in the file
ColumnValues == UNION {Range(column[b]) : b \in DOMAIN column}

\* C30: the index build_ef_index builds holds exactly the distinct values
\* of the column, each once and in ascending order, however the column was
\* split into batches and in whatever order and however often the values
\* occur in a batch; so a value the index does not hold is in no row.
C30_EfIndexIsDistinctValues ==
    ef_built.done =>
        /\ ~ef_built.panic
        /\ ef_built.values = SortedSeqOf(ColumnValues)
        /\ \A k \in KeyDomain : k \notin Range(ef_built.values) => k \notin ColumnValues
\* The index was built from two batches that share a value, one of them
\* out of order and with a value repeated.
C30_Witness ==
    /\ ef_built.done
    /\ Len(column) = 2
    /\ Range(column[1]) \cap Range(column[2]) # {}
    /\ \E b \in DOMAIN column : \E i, j \in DOMAIN column[b] :
           i < j /\ column[b][i] > column[b][j]
    /\ \E b \in DOMAIN column : Cardinality(Range(column[b])) < Len(column[b])
    /\ Len(ef_built.values) = Cardinality(ColumnValues)

(***************************************************************************)
(* The index of a FileReader under any sequence of mmap_ef_index and       *)
(* build_ef_index calls (database/reader.rs).  ef_built is the outcome of  *)
(* the last build_ef_index.  Each file has its own FileReader, so tables   *)
(* of one and of two files are taken.                                      *)
(***************************************************************************)
IndexColumns == {"cnt", "id", "sha1_git"}

IndexSpecInit ==
    /\ \E kt \in KeyTypes, run \in SortedRuns :
        \E cuts \in [1..(Len(run) - 1) -> {"file", "none"}] :
          \E ef \in SUBSET (1..NumFilesOf(cuts)) :
            /\ NumFilesOf(cuts) <= 2
            /\ table = [key_type |-> kt,
                        files |-> MakeFiles(run, cuts, TRUE, "none", TRUE, ef)]
    /\ indexes = [f \in FileIds |-> UnsetIndex]
    /\ startup = "none"
    /\ scan = NoScan
    /\ whereis = NoWhereIs
    /\ PoolInit
    /\ StreamIdle
    /\ ServiceIdle
    /\ LoadIdle
    /\ SessionIdle
    /\ BuildIdle
    /\ TxIdle

\* FileReader::mmap_ef_index(column_name) on file f: when the index file
\* cannot be mapped the error is returned before OnceLock::set is called.
MmapEfIndex(f, column_name, mapped) ==
    /\ column_name = IndexedColumn(table.key_type) => mapped = table.files[f].ef_on_disk
    /\ indexes' = [indexes EXCEPT ![f] =
                      IF mapped THEN mmap_ef_index(@, table.files[f], column_name) ELSE @]
    /\ UNCHANGED <<table, startup, scan, whereis>>
    /\ UNCHANGED notScan

\* The match that ends build_ef_index, on the index found after the set.
built_ef_index(index, column_name) ==
    LET found == ef_index(index, column_name)
    IN [done |-> TRUE,
        panic |-> ~found.some \/ index.kind = "Mapped",
        values |-> IF found.some /\ index.kind = "Loaded"
                   THEN SortedSeqOf(found.v) ELSE <<>>]

\* FileReader::build_ef_index(column_name) on file f: when the file cannot
\* be read the error is returned before OnceLock::set is called.
BuildEfIndexOf(f, column_name, read_ok) ==
    /\ indexes' = [indexes EXCEPT ![f] =
                      IF read_ok THEN set_loaded_ef_index(@, table.files[f], column_name)
                      ELSE @]
    /\ ef_built' = IF read_ok THEN built_ef_index(indexes'[f], column_name) ELSE NotBuilt
    /\ UNCHANGED <<table, startup, scan, whereis>>
    /\ UNCHANGED <<directory, table_new, column>>
    /\ UNCHANGED <<poolVars, streamVars, serviceVars, sessionVars, buildVars, txVars>>

IndexNext ==
    \/ \E f \in FileIds, column_name \in IndexColumns, mapped \in BOOLEAN :
           MmapEfIndex(f, column_name, mapped)
    \/ \E f \in FileIds, column_name \in IndexColumns, read_ok \in BOOLEAN :
           BuildEfIndexOf(f, column_name, read_ok)

IndexSpec == IndexSpecInit /\ [][IndexNext]_vars

\* C36: a FileReader holds at most one Elias-Fano index, set once: an
\* index that is set is left as it is, with its column, by every later
\* mmap_ef_index and build_ef_index on the same or on another column, and
\* ef_index(c) then still returns that index for the column it was set on
\* and nothing for any other column; a reader with no index returns nothing.
C36_EfIndexSetOnce ==
    /\ [][\A f \in FileIds :
             indexes[f].set =>
                 /\ indexes'[f] = indexes[f]
                 /\ \A c \in IndexColumns :
                        ef_index(indexes'[f], c) =
                            IF c = indexes[f].column_name
                            THEN Some(indexes[f].values) ELSE None({})
         ]_vars
    /\ [](\A f \in FileIds : \A c \in IndexColumns :
             ~indexes[f].set => ~ef_index(indexes[f], c).some)
\* A file whose index was mapped on one column went through a
\* build_ef_index on another column, and kept the mapped index.
C36_Witness ==
    \E f \in FileIds :
        /\ indexes[f].set
        /\ indexes[f].kind = "Mapped"
        /\ ef_built.done
        /\ ef_built.panic
        /\ \E c \in IndexColumns : c # indexes[f].column_name /\ ~ef_index(indexes[f], c).some

(***************************************************************************)
(* CachingParquetFormat::create_physical_plan called by concurrent tasks   *)
(* (database/caching_parquet_format.rs).  DashMap::entry takes the write   *)
(* lock of the key's shard and tells whether the key is vacant; the lock   *)
(* is held until or_try_insert_with has returned and the factory has been  *)
(* cloned out of the entry.                                                *)
(***************************************************************************)
\* A map whose entries are not locked.
shard_never_locked(planning, url) == FALSE
\* The shard of the key is locked by a task that holds its entry.
shard_locked(planning, url) ==
    \E t \in DOMAIN planning : planning[t].pc = "entry" /\ planning[t].url = url

FormatSpecInit ==
    /\ SessionIdle
    /\ BuildIdle
    /\ TxIdle
    /\ ScanIdle
    /\ PoolInit
    /\ StreamIdle
    /\ ServiceIdle
    /\ LoadIdle

\* self.factories.entry(object_store_url.clone())
Entry(t, url) ==
    /\ plans[t].pc # "entry"
    /\ ~shard_locked(plans, url)
    /\ plans' = [plans EXCEPT ![t] =
                    [pc |-> "entry", url |-> url, vacant |-> factories[url] = 0, factory |-> 0]]
    /\ UNCHANGED <<factories, factory_inits>>
    /\ UNCHANGED notSession

\* .or_try_insert_with(|| ...)?.value(): on a vacant entry the closure looks
\* the object store up and, when there is one, makes the factory that is
\* inserted; on an occupied entry the closure is not called
OrTryInsertWith(t, store_ok) ==
    /\ plans[t].pc = "entry"
    /\ LET url == plans[t].url
       IN IF ~plans[t].vacant
          THEN /\ plans' = [plans EXCEPT ![t].pc = "planned", ![t].factory = factories[url]]
               /\ UNCHANGED <<factories, factory_inits>>
          ELSE IF store_ok
          THEN /\ factory_inits' = [factory_inits EXCEPT ![url] = @ + 1]
               /\ factories' = [factories EXCEPT ![url] = factory_inits'[url]]
               /\ plans' = [plans EXCEPT ![t].pc = "planned", ![t].factory = factory_inits'[url]]
          ELSE /\ plans' = [plans EXCEPT ![t].pc = "failed"]
               /\ UNCHANGED <<factories, factory_inits>>
    /\ UNCHANGED notSession

FormatNext ==
    \/ \E t \in Planners, url \in Urls : Entry(t, url)
    \/ \E t \in Planners, store_ok \in BOOLEAN : OrTryInsertWith(t, store_ok)

FormatSpec == FormatSpecInit /\ [][FormatNext]_vars

\* C37: CachingParquetFormat holds at most one factory per object-store
\* URL under any interleaving of create_physical_plan calls: factory_init
\* succeeds at most once per URL, a plan for a URL has the factory that is
\* in the map for it, which is the one every other plan for the URL has,
\* and a create_physical_plan that fails leaves the map as it was.
C37_OneFactoryPerUrl ==
    /\ [](\A u \in Urls :
             /\ factory_inits[u] <= 1
             /\ factories[u] = factory_inits[u])
    /\ [](\A t \in Planners :
             plans[t].pc = "planned" =>
                 /\ plans[t].factory # 0
                 /\ plans[t].factory = factories[plans[t].url]
                 /\ \A o \in Planners :
                        (plans[o].pc = "planned" /\ plans[o].url = plans[t].url)
                            => plans[o].factory = plans[t].factory)
    /\ [][\A t \in Planners :
             (plans[t].pc = "entry" /\ plans'[t].pc = "failed")
                 => factories' = factories /\ factory_inits' = factory_inits
         ]_vars
\* Two tasks planned for a URL, one making the factory and the other
\* finding it, and the initialisation of a third task for another URL
\* failed and inserted nothing.
C37_Witness ==
    \E u, v \in Urls : \E t1, t2, t3 \in Planners :
        /\ u # v /\ t1 # t2
        /\ factory_inits[u] = 1
        /\ plans[t1].pc = "planned" /\ plans[t1].url = u /\ plans[t1].vacant
        /\ plans[t2].pc = "planned" /\ plans[t2].url = u /\ ~plans[t2].vacant
        /\ plans[t3].pc = "failed" /\ plans[t3].url = v
        /\ factories[v] = 0

(***************************************************************************)
(* compute-earliest-timestamps (db-build/src/bin): one traversal per node  *)
(* of the graph, run in parallel over an array of atomic timestamps, then  *)
(* the array is written out.  Timestamps are signed integers of            *)
(* TimestampBits bits.                                                     *)
(***************************************************************************)
TimestampBits == 2
i64_MAX == 2^(TimestampBits - 1) - 1
i64_MIN == -(2^(TimestampBits - 1))

\* i64::to_be as the word that lands in the file, and the value a reader of
\* the file decodes from it
to_be(v) == v % 2^TimestampBits
from_be(word) == IF word >= 2^(TimestampBits - 1) THEN word - 2^TimestampBits ELSE word

\* Two revisions, a release, two directories and a content.  In the first
\* graph revision 2 has revision 1 as parent and the release is of
\* revision 1; in the second the release is of directory 5 and directory 4
\* has revision 2 as a submodule.
BuildNodeTypes == <<"rev", "rev", "rel", "dir", "dir", "cnt">>
BuildSuccessors ==
    {<<{4}, {5, 1}, {1}, {5, 6}, {6}, {}>>,
     <<{4}, {5}, {5}, {6, 2}, {}, {}>>}
BuildNodes == DOMAIN BuildNodeTypes
RevRels == {n \in BuildNodes : BuildNodeTypes[n] \in {"rev", "rel"}}
\* An author date is any timestamp but i64::MIN, which the graph's property
\* files use for "no date".
AuthorDates == {None(0)} \cup {Some(t) : t \in (i64_MIN + 1)..i64_MAX}

\* filters::is_root_revrel: the node is a revision or release the node
\* filter accepts
is_root_revrel(g, n) == g.node_type[n] \in {"rev", "rel"} /\ n \in g.accepted

NotStarted == [pc |-> "todo", stack |-> <<>>, visited |-> {}]

BuildSpecInit ==
    /\ \E succ \in BuildSuccessors, dates \in [RevRels -> AuthorDates],
          rejected \in {{}} \cup {{r} : r \in RevRels} :
           swh_graph = [node_type |-> BuildNodeTypes,
                        successors |-> succ,
                        author_timestamp |-> [n \in BuildNodes |->
                            IF n \in RevRels THEN dates[n] ELSE None(0)],
                        accepted |-> RevRels \ rejected]
    /\ timestamps = [n \in BuildNodes |-> i64_MAX]
    /\ traversals = [n \in BuildNodes |-> NotStarted]
    /\ timestamps_out = <<>>
    /\ ScanIdle
    /\ PoolInit
    /\ StreamIdle
    /\ ServiceIdle
    /\ LoadIdle
    /\ SessionIdle
    /\ TxIdle

\* AtomicI64::fetch_min
fetch_min(current, value) == IF value < current THEN value ELSE current

\* mark_reachable_contents(revrel) up to its loop: a node that is no root
\* or has no author date is left at once
StartTraversal(n) ==
    /\ traversals[n].pc = "todo"
    /\ traversals' = [traversals EXCEPT ![n] =
           IF is_root_revrel(swh_graph, n) /\ swh_graph.author_timestamp[n].some
           THEN [pc |-> "running", stack |-> <<n>>, visited |-> {}]
           ELSE [pc |-> "done", stack |-> <<>>, visited |-> {}]]
    /\ UNCHANGED <<swh_graph, timestamps, timestamps_out>>
    /\ UNCHANGED notBuild

\* One turn of the loop of mark_reachable_contents(revrel): the node on top
\* of the stack gets the date of revrel when it is a content or directory,
\* and its content and directory successors not visited yet are pushed
Visit(n) ==
    /\ traversals[n].pc = "running"
    /\ LET stack == traversals[n].stack
           node == stack[Len(stack)]
           pushed == {s \in swh_graph.successors[node] :
                         /\ swh_graph.node_type[s] \in {"dir", "cnt"}
                         /\ s \notin traversals[n].visited}
           after == SubSeq(stack, 1, Len(stack) - 1) \o SortedSeqOf(pushed)
       IN /\ timestamps' =
                 IF swh_graph.node_type[node] \in {"cnt", "dir"}
                 THEN [timestamps EXCEPT ![node] =
                          fetch_min(@, swh_graph.author_timestamp[n].v)]
                 ELSE timestamps
          /\ traversals' = [traversals EXCEPT ![n] =
                 [pc |-> IF after = <<>> THEN "done" ELSE "running",
                  stack |-> after,
                  visited |-> traversals[n].visited \cup pushed]]
    /\ UNCHANGED <<swh_graph, timestamps_out>>
    /\ UNCHANGED notBuild

\* main after try_for_each_with: i64::MAX becomes i64::MIN, every value is
\* converted to big-endian and the array is written
WriteTimestamps ==
    /\ timestamps_out = <<>>
    /\ \A n \in BuildNodes : traversals[n].pc = "done"
    /\ timestamps_out' = [n \in BuildNodes |->
           to_be(IF timestamps[n] = i64_MAX THEN i64_MIN ELSE timestamps[n])]
    /\ UNCHANGED <<swh_graph, timestamps, traversals>>
    /\ UNCHANGED notBuild

BuildNext ==
    \/ \E n \in BuildNodes : StartTraversal(n)
    \/ \E n \in BuildNodes : Visit(n)
    \/ WriteTimestamps

BuildSpec == BuildSpecInit /\ [][BuildNext]_vars

\* The contents and directories a revision or release contains: those
\* reached from it through directories and contents only.
RECURSIVE ContainedBy(_, _)
ContainedBy(nodes, k) ==
    IF k = 0 THEN nodes
    ELSE ContainedBy(nodes \cup {s \in UNION {swh_graph.successors[m] : m \in nodes} :
                                     swh_graph.node_type[s] \in {"dir", "cnt"}}, k - 1)
Contains(r, n) == n # r /\ n \in ContainedBy({r}, Len(swh_graph.node_type))
\* The author dates of the accepted revisions and releases that contain n
DatesOf(n) ==
    {swh_graph.author_timestamp[r].v :
        r \in {r \in swh_graph.accepted : swh_graph.author_timestamp[r].some
                                           /\ Contains(r, n)}}
EarliestTimestamp(n) ==
    IF DatesOf(n) = {} THEN i64_MIN
    ELSE CHOOSE t \in DatesOf(n) : \A u \in DatesOf(n) : t <= u

\* C38: whatever the interleaving of the traversals, the value written for
\* a content or directory is the smallest author date of the accepted
\* revisions and releases with a date that contain it, and i64::MIN when
\* there is none.
C38_EarliestTimestampWritten ==
    timestamps_out # <<>> =>
        \A n \in BuildNodes :
            swh_graph.node_type[n] \in {"cnt", "dir"}
                => from_be(timestamps_out[n]) = EarliestTimestamp(n)

(***************************************************************************)
(* Transactions and their temporary tables (database/transaction.rs).      *)
(* A table name is <<friendly_name, transaction id, table id>>; a          *)
(* transaction is [state, temporary_tables, last_table_id], its id being   *)
(* its index, and state is "open", "closed" (close returned) or "dropped". *)
(***************************************************************************)
\* Transactions made, and tables one transaction is asked to create.
MaxTransactions == 2
MaxTables == 2
FriendlyNames == {"swhids", "nodes"}

TxSpecInit ==
    /\ TxIdle
    /\ ScanIdle
    /\ PoolInit
    /\ StreamIdle
    /\ ServiceIdle
    /\ LoadIdle
    /\ SessionIdle
    /\ BuildIdle

\* ProvenanceDatabase::transaction and Transaction::new
NewTransaction ==
    /\ last_txid < MaxTransactions
    /\ last_txid' = last_txid + 1
    /\ transactions' = Append(transactions,
           [state |-> "open", temporary_tables |-> <<>>, last_table_id |-> 0])
    /\ UNCHANGED ctx
    /\ UNCHANGED notTx

\* format!("{}_{}_{}", friendly_name, self.id, table_id); ids start at 0
table_name(friendly_name, id, table_id) == <<friendly_name, id, table_id>>

\* create_table_from_batch and create_table_from_query: the table is
\* registered under its name unless DataFusion fails, and is returned to
\* the caller; temporary_tables is not written
create_table(tx, id, friendly_name, data, registered) ==
    [transaction |-> [tx EXCEPT !.last_table_id = @ + 1],
     added |-> IF registered
               THEN {[name |-> table_name(friendly_name, id, tx.last_table_id),
                      data |-> data]}
               ELSE {}]

\* Transaction::create_table_from_batch
CreateTableFromBatch(i, friendly_name, registered) ==
    /\ i \in DOMAIN transactions
    /\ transactions[i].state = "open"
    /\ transactions[i].last_table_id < MaxTables
    /\ LET res == create_table(transactions[i], i - 1, friendly_name, "batch", registered)
       IN /\ transactions' = [transactions EXCEPT ![i] = res.transaction]
          /\ ctx' = ctx \cup res.added
    /\ UNCHANGED last_txid
    /\ UNCHANGED notTx

\* Transaction::create_table_from_query
CreateTableFromQuery(i, friendly_name, registered) ==
    /\ i \in DOMAIN transactions
    /\ transactions[i].state = "open"
    /\ transactions[i].last_table_id < MaxTables
    /\ LET res == create_table(transactions[i], i - 1, friendly_name, "query", registered)
       IN /\ transactions' = [transactions EXCEPT ![i] = res.transaction]
          /\ ctx' = ctx \cup res.added
    /\ UNCHANGED last_txid
    /\ UNCHANGED notTx

\* Transaction::close: DROP TABLE for each table of temporary_tables that
\* can still be upgraded, then the list is cleared
close(tx, registered) ==
    [transaction |-> [tx EXCEPT !.temporary_tables = <<>>],
     ctx |-> {t \in registered :
                 t.name \notin {tx.temporary_tables[k].name :
                                   k \in {k \in DOMAIN tx.temporary_tables :
                                              tx.temporary_tables[k].alive}}}]

CloseTransaction(i) ==
    /\ i \in DOMAIN transactions
    /\ transactions[i].state = "open"
    /\ LET res == close(transactions[i], ctx)
       IN /\ transactions' = [transactions EXCEPT ![i] =
                                 [res.transaction EXCEPT !.state = "closed"]]
          /\ ctx' = res.ctx
    /\ UNCHANGED last_txid
    /\ UNCHANGED notTx

\* <Transaction as Drop>::drop: close is called when temporary_tables is
\* not empty
DropTransaction(i) ==
    /\ i \in DOMAIN transactions
    /\ transactions[i].state \in {"open", "closed"}
    /\ LET res == IF transactions[i].temporary_tables # <<>>
                  THEN close(transactions[i], ctx)
                  ELSE [transaction |-> transactions[i], ctx |-> ctx]
       IN /\ transactions' = [transactions EXCEPT ![i] =
                                 [res.transaction EXCEPT !.state = "dropped"]]
          /\ ctx' = res.ctx
    /\ UNCHANGED last_txid
    /\ UNCHANGED notTx

TxNext ==
    \/ NewTransaction
    \/ \E i \in 1..MaxTransactions, friendly_name \in FriendlyNames, registered \in BOOLEAN :
           CreateTableFromBatch(i, friendly_name, registered)
    \/ \E i \in 1..MaxTransactions, friendly_name \in FriendlyNames, registered \in BOOLEAN :
           CreateTableFromQuery(i, friendly_name, registered)
    \/ \E i \in 1..MaxTransactions : CloseTransaction(i)
    \/ \E i \in 1..MaxTransactions : DropTransaction(i)

TxSpec == TxSpecInit /\ [][TxNext]_vars

\* The tables of the session context that transaction i created
TablesOf(i) == {t \in ctx : t.name[2] = i - 1}

\* C39: once a transaction is closed or dropped, no temporary table it
\* created is registered in the session context.
C39_TemporaryTablesDropped ==
    \A i \in DOMAIN transactions :
        transactions[i].state \in {"closed", "dropped"} => TablesOf(i) = {}

(***************************************************************************)
(* The reader factory of database/parquet.rs.  A reader is [layers, base]: *)
(* the wrappers around it, outermost first, and the number of the base     *)
(* reader the inner factory made; queue is the pool of one (file,          *)
(* partition) key and thr[t].lease the reader inside the                   *)
(* PooledParquetFileReader task t holds.                                   *)
(***************************************************************************)
\* Wrapper layers up to which readers are followed.
MaxLayers == 3

\* CachingParquetFileReader::new(reader)
CachingParquetFileReader_new(reader) ==
    [reader EXCEPT !.layers = <<"CachingParquetFileReader">> \o @]
\* The CachingParquetFileReader layers around the base reader
Layers(reader) ==
    Cardinality({k \in DOMAIN reader.layers : reader.layers[k] = "CachingParquetFileReader"})

FactorySpecInit ==
    /\ pool_alive = TRUE
    /\ queue = <<>>
    /\ created = 0
    /\ thr = [t \in Threads |-> IdleThread]
    /\ impl = "parquet"
    /\ metadata = [r \in Readers |-> None(NoMetadata)]
    /\ inner_calls = [r \in Readers |-> 0]
    /\ got = [t \in Threads |-> NothingGot]
    /\ ScanIdle
    /\ StreamIdle
    /\ ServiceIdle
    /\ LoadIdle
    /\ SessionIdle
    /\ BuildIdle
    /\ TxIdle

\* CachingParquetFileReaderFactory::create_reader: the reader popped from
\* the pool, or else a reader the inner factory makes (which can fail), is
\* wrapped in a new CachingParquetFileReader and that in the pooled reader
\* that is returned
CreateReader(t, made) ==
    /\ thr[t].pc = "idle"
    /\ queue # <<>> => Layers(popped_reader(queue)) < MaxLayers
    /\ (queue = <<>> /\ made) => created < MaxReaders
    /\ IF queue = <<>> /\ ~made
       THEN /\ thr' = [thr EXCEPT ![t].ret = "err"]
            /\ UNCHANGED <<queue, created>>
       ELSE LET reader == IF queue = <<>> THEN [layers |-> <<>>, base |-> created + 1]
                          ELSE popped_reader(queue)
            IN /\ thr' = [thr EXCEPT ![t] =
                             [pc |-> "leased", inner |-> 0,
                              lease |-> CachingParquetFileReader_new(reader),
                              calls |-> IF queue = <<>> THEN 1 ELSE 0, ret |-> "ok"]]
               /\ queue' = IF queue = <<>> THEN queue ELSE queue_after_pop(queue)
               /\ created' = IF queue = <<>> THEN created + 1 ELSE created
    /\ UNCHANGED pool_alive
    /\ UNCHANGED cacheVars
    /\ UNCHANGED notPool

\* <PooledParquetFileReader as Drop>::drop of parquet.rs: the reader inside
\* is pushed to the pool, which the factory keeps alive
DropPooled(t) ==
    /\ thr[t].pc = "leased"
    /\ queue' = IF upgrade(pool_alive) THEN queue_after_push(queue, thr[t].lease)
                ELSE queue
    /\ thr' = [thr EXCEPT ![t] = [IdleThread EXCEPT !.ret = "pushed"]]
    /\ UNCHANGED <<pool_alive, created>>
    /\ UNCHANGED cacheVars
    /\ UNCHANGED notPool

FactoryNext ==
    \/ \E t \in Threads, made \in BOOLEAN : CreateReader(t, made)
    \/ \E t \in Threads : DropPooled(t)

FactorySpec == FactorySpecInit /\ [][FactoryNext]_vars

\* C40: in the factory of parquet.rs every reader, in the pool or leased,
\* has exactly one CachingParquetFileReader around its base reader, after
\* any number of create_reader and drop cycles.
C40_OneWrapperLayer ==
    /\ \A i \in DOMAIN queue : Layers(queue[i]) = 1
    /\ \A t \in Threads : thr[t].pc = "leased" => Layers(thr[t].lease) = 1

====
